---------------------------- MODULE Spec2Model ----------------------------
(***************************************************************************)
(* A model of the glob matcher of komem3/glob.                             *)
(*                                                                         *)
(* Strings and byte slices are sequences of bytes (0..255); runes are      *)
(* naturals.  The compiled pattern is the chain of states that Compile     *)
(* links through state.next: chain[k] is the k-th state after startState   *)
(* and chain[k+1] is its next; the last element is the matchedKind state.  *)
(***************************************************************************)
EXTENDS Naturals, Integers, Sequences, FiniteSets, TLC

(***************************************************************************)
(* Bounds of the model.                                                    *)
(***************************************************************************)
MaxPatLen == 3

MaxInLen == 2

MaxPool == 1

(***************************************************************************)
(* Program constants: the bytes the code compares against, and             *)
(* utf8.RuneError.                                                         *)
(***************************************************************************)
RuneError == 65533

Backslash == 92

Asterisk == 42

Question == 63

OpenSquare == 91

CloseSquare == 93

Caret == 94

Hyphen == 45

LetterA == 97

LetterB == 98

LetterC == 99

LetterD == 100

(***************************************************************************)
(* Helpers on sequences.                                                   *)
(***************************************************************************)
Drop(s, n) == SubSeq(s, n + 1, Len(s))

Take(s, n) == SubSeq(s, 1, n)

Last(s) == s[Len(s)]

(* strings.Contains and strings.Index (bytes.Index): the first offset at   *)
(* which substr stands in s, or -1.                                        *)
Contains(s, substr) ==
    \E i \in 0..(Len(s) - Len(substr)) : SubSeq(s, i + 1, i + Len(substr)) = substr

Index(s, substr) ==
    IF ~Contains(s, substr) THEN 0 - 1
    ELSE CHOOSE i \in 0..(Len(s) - Len(substr)) :
           /\ SubSeq(s, i + 1, i + Len(substr)) = substr
           /\ \A j \in 0..(i - 1) : SubSeq(s, j + 1, j + Len(substr)) # substr

SeqsUpTo(S, n) == UNION {[1..k -> S] : k \in 0..n}

RECURSIVE Flatten(_)
Flatten(ss) == IF ss = <<>> THEN <<>> ELSE Head(ss) \o Flatten(Tail(ss))

(***************************************************************************)
(* unicode/utf8: DecodeRune and DecodeRuneInString.  The result is the     *)
(* rune and its width; an empty input gives (RuneError, 0) and a byte that *)
(* starts no well-formed encoding gives (RuneError, 1).  The valid         *)
(* three-byte encoding EF BF BD gives (RuneError, 3).                      *)
(***************************************************************************)
IsCont(b) == b >= 128 /\ b <= 191

DecodeRune(p) ==
    IF Len(p) = 0 THEN [r |-> RuneError, size |-> 0]
    ELSE LET b0 == p[1] IN
      IF b0 < 128 THEN [r |-> b0, size |-> 1]
      ELSE IF b0 >= 194 /\ b0 <= 223 THEN
             IF Len(p) >= 2 /\ IsCont(p[2])
             THEN [r |-> (b0 - 192) * 64 + (p[2] - 128), size |-> 2]
             ELSE [r |-> RuneError, size |-> 1]
      ELSE IF b0 >= 224 /\ b0 <= 239 THEN
             IF /\ Len(p) >= 3
                /\ IsCont(p[2])
                /\ IsCont(p[3])
                /\ (b0 = 224 => p[2] >= 160)
                /\ (b0 = 237 => p[2] <= 159)
             THEN [r |-> (b0 - 224) * 4096 + (p[2] - 128) * 64 + (p[3] - 128),
                   size |-> 3]
             ELSE [r |-> RuneError, size |-> 1]
      ELSE IF b0 >= 240 /\ b0 <= 244 THEN
             IF /\ Len(p) >= 4
                /\ IsCont(p[2])
                /\ IsCont(p[3])
                /\ IsCont(p[4])
                /\ (b0 = 240 => p[2] >= 144)
                /\ (b0 = 244 => p[2] <= 143)
             THEN [r |-> (b0 - 240) * 262144 + (p[2] - 128) * 4096
                          + (p[3] - 128) * 64 + (p[4] - 128),
                   size |-> 4]
             ELSE [r |-> RuneError, size |-> 1]
      ELSE [r |-> RuneError, size |-> 1]

(* []rune(s) and `for i, r := range s`: every byte that starts no          *)
(* well-formed encoding yields RuneError and advances by one byte.         *)
RECURSIVE RunesOf(_)
RunesOf(s) ==
    IF Len(s) = 0 THEN <<>>
    ELSE LET d == DecodeRune(s) IN <<d.r>> \o RunesOf(Drop(s, d.size))

RECURSIVE ValidUTF8(_)
ValidUTF8(s) ==
    IF Len(s) = 0 THEN TRUE
    ELSE LET d == DecodeRune(s) IN
         /\ ~(d.r = RuneError /\ d.size = 1)
         /\ ValidUTF8(Drop(s, d.size))


(***************************************************************************)
(* regexp.Compile on the text Compile cuts out of the pattern, and the     *)
(* match of the compiled expression against string(r).  The text is        *)
(* pattern[i : i+end+1], i being the index of the '[' among the runes: it  *)
(* starts at the '[' when only one-byte characters stand before it, and    *)
(* earlier otherwise.  Modelled after regexp/syntax (flags Perl): in a     *)
(* class a leading '^' negates, a ']' standing first is a member, '\'      *)
(* followed by punctuation is that character, lo-hi is a range, and "[:"  *)
(* up to the next ":]" is a named class.  Outside                          *)
(* a class the alphabet of this model has literals, '^' and escaped        *)
(* punctuation; repetition, alternation, groups, octal and hexadecimal     *)
(* escapes and the classes and assertions written with a backslash and a   *)
(* letter are outside it.                                                  *)
(***************************************************************************)
IsAlnum(c) ==
    \/ (c >= 48 /\ c <= 57)
    \/ (c >= 65 /\ c <= 90)
    \/ (c >= 97 /\ c <= 122)

ReFail == [err |-> TRUE, lo |-> 0, rest |-> <<>>]

(* parseEscape of regexp/syntax on the rune d after a backslash.           *)
parseEscape(d, rest) ==
    IF d.r < 128 /\ d.r # 95 /\ ~IsAlnum(d.r)
    THEN [err |-> FALSE, lo |-> d.r, rest |-> rest]
    ELSE IF d.r = 97 THEN [err |-> FALSE, lo |-> 7, rest |-> rest]
    ELSE IF d.r = 102 THEN [err |-> FALSE, lo |-> 12, rest |-> rest]
    ELSE IF d.r = 110 THEN [err |-> FALSE, lo |-> 10, rest |-> rest]
    ELSE IF d.r = 114 THEN [err |-> FALSE, lo |-> 13, rest |-> rest]
    ELSE IF d.r = 116 THEN [err |-> FALSE, lo |-> 9, rest |-> rest]
    ELSE IF d.r = 118 THEN [err |-> FALSE, lo |-> 11, rest |-> rest]
    ELSE ReFail

(* The rune d taken as it stands, and the text after it.                   *)
classLiteral(t, d) == [err |-> FALSE, lo |-> d.r, rest |-> Drop(t, d.size)]

escapedFrom(t, d) == parseEscape(d, Drop(t, d.size))

(* parseClassChar of regexp/syntax: one class character.                   *)
parseClassChar(t) ==
    IF Len(t) = 0 THEN ReFail
    ELSE IF t[1] = Backslash
    THEN IF Len(t) = 1 THEN ReFail
         ELSE escapedFrom(Drop(t, 1), DecodeRune(Drop(t, 1)))
    ELSE classLiteral(t, DecodeRune(t))

ClassFail == [err |-> TRUE, ranges |-> {}, rest |-> <<>>]

(* posixGroup of regexp/syntax: the names that may stand between "[:" and  *)
(* ":]" (alnum, alpha, ascii, blank, cntrl, digit, graph, lower, print,    *)
(* punct, space, upper, word, xdigit) and their ranges; a '^' before the   *)
(* name gives the runes outside them.                                      *)
Colon == 58

posixNames ==
    {<<97, 108, 110, 117, 109>>,
     <<97, 108, 112, 104, 97>>,
     <<97, 115, 99, 105, 105>>,
     <<98, 108, 97, 110, 107>>,
     <<99, 110, 116, 114, 108>>,
     <<100, 105, 103, 105, 116>>,
     <<103, 114, 97, 112, 104>>,
     <<108, 111, 119, 101, 114>>,
     <<112, 114, 105, 110, 116>>,
     <<112, 117, 110, 99, 116>>,
     <<115, 112, 97, 99, 101>>,
     <<117, 112, 112, 101, 114>>,
     <<119, 111, 114, 100>>,
     <<120, 100, 105, 103, 105, 116>>}

posixRanges(name) ==
    CASE name = <<97, 108, 110, 117, 109>> -> {<<48, 57>>, <<65, 90>>, <<97, 122>>}    \* alnum
      [] name = <<97, 108, 112, 104, 97>> -> {<<65, 90>>, <<97, 122>>}    \* alpha
      [] name = <<97, 115, 99, 105, 105>> -> {<<0, 127>>}    \* ascii
      [] name = <<98, 108, 97, 110, 107>> -> {<<9, 9>>, <<32, 32>>}    \* blank
      [] name = <<99, 110, 116, 114, 108>> -> {<<0, 31>>, <<127, 127>>}    \* cntrl
      [] name = <<100, 105, 103, 105, 116>> -> {<<48, 57>>}    \* digit
      [] name = <<103, 114, 97, 112, 104>> -> {<<33, 126>>}    \* graph
      [] name = <<108, 111, 119, 101, 114>> -> {<<97, 122>>}    \* lower
      [] name = <<112, 114, 105, 110, 116>> -> {<<32, 126>>}    \* print
      [] name = <<112, 117, 110, 99, 116>> -> {<<33, 47>>, <<58, 64>>, <<91, 96>>, <<123, 126>>}    \* punct
      [] name = <<115, 112, 97, 99, 101>> -> {<<9, 13>>, <<32, 32>>}    \* space
      [] name = <<117, 112, 112, 101, 114>> -> {<<65, 90>>}    \* upper
      [] name = <<119, 111, 114, 100>> -> {<<48, 57>>, <<65, 90>>, <<97, 122>>, <<95, 95>>}    \* word
      [] name = <<120, 100, 105, 103, 105, 116>> -> {<<48, 57>>, <<65, 70>>, <<97, 102>>}    \* xdigit

(* The ranges of the runes outside the ranges rs.                          *)
negatedRanges(rs) ==
    {g \in ({0} \cup {rg[2] + 1 : rg \in rs})
            \X ({1114111} \cup {rg[1] - 1 : rg \in rs}) :
        /\ g[1] <= g[2]
        /\ \A rg \in rs : rg[2] < g[1] \/ g[2] < rg[1]}

posixGroup(name) ==
    IF name \in posixNames THEN [known |-> TRUE, ranges |-> posixRanges(name)]
    ELSE IF name # <<>> /\ Head(name) = Caret /\ Tail(name) \in posixNames
    THEN [known |-> TRUE, ranges |-> negatedRanges(posixRanges(Tail(name)))]
    ELSE [known |-> FALSE, ranges |-> {}]

(* parseClass of regexp/syntax from the text t on: the class characters    *)
(* and ranges up to the closing ']'.  c is the class character at the      *)
(* head of the text and h the one after a '-'.                             *)
RECURSIVE parseClass(_, _, _)
parseRangeEnd(c, h, ranges) ==
    IF h.err \/ h.lo < c.lo THEN ClassFail
    ELSE parseClass(h.rest, FALSE, ranges \cup {<<c.lo, h.lo>>})

parseClassFrom(c, ranges) ==
    IF c.err THEN ClassFail
    ELSE IF Len(c.rest) >= 2 /\ c.rest[1] = Hyphen /\ c.rest[2] # CloseSquare
    THEN parseRangeEnd(c, parseClassChar(Drop(c.rest, 1)), ranges)
    ELSE parseClass(c.rest, FALSE, ranges \cup {<<c.lo, c.lo>>})

(* parseNamedClass of regexp/syntax on a text t that starts with "[:" and  *)
(* has its first ":]" at offset i of t[2:]; g is the group of the name.    *)
parseNamedClass(t, i, g, ranges) ==
    IF ~g.known THEN ClassFail
    ELSE parseClass(Drop(t, i + 4), FALSE, ranges \cup g.ranges)

namedClassAt(t, i, ranges) ==
    parseNamedClass(t, i, posixGroup(SubSeq(t, 3, i + 2)), ranges)

parseClass(t, first, ranges) ==
    IF Len(t) > 0 /\ t[1] = CloseSquare /\ ~first
    THEN [err |-> FALSE, ranges |-> ranges, rest |-> Drop(t, 1)]
    ELSE IF /\ Len(t) > 2
            /\ t[1] = OpenSquare
            /\ t[2] = Colon
            /\ Contains(Drop(t, 2), <<Colon, CloseSquare>>)
    THEN namedClassAt(t, Index(Drop(t, 2), <<Colon, CloseSquare>>), ranges)
    ELSE parseClassFrom(parseClassChar(t), ranges)

(* A compiled expression is the sequence of its atoms: the assertion ^     *)
(* (beginning of text) or a class of runes, a literal being the class of   *)
(* one rune.                                                               *)
NoRegex == <<>>

BeginText == [begin |-> TRUE, neg |-> FALSE, ranges |-> {}]

ClassAtom(neg, ranges) == [begin |-> FALSE, neg |-> neg, ranges |-> ranges]

LiteralAtom(c) == ClassAtom(FALSE, {<<c, c>>})

RegexpFail == [err |-> TRUE, re |-> NoRegex]

(* parse of regexp/syntax from the text t on, atoms being the atoms        *)
(* before it.  A ']' outside a class is a literal.                         *)
RECURSIVE parseRegexp(_, _)
(* The atom of a parsed class c, negated or not, and the text after it.    *)
regexpOf(neg, c, atoms) ==
    IF c.err THEN RegexpFail
    ELSE parseRegexp(c.rest, Append(atoms, ClassAtom(neg, c.ranges)))

(* t is the text after the opening '['.                                    *)
regexpClass(t, atoms) ==
    IF Len(t) > 0 /\ t[1] = Caret
    THEN regexpOf(TRUE, parseClass(Drop(t, 1), TRUE, {}), atoms)
    ELSE regexpOf(FALSE, parseClass(t, TRUE, {}), atoms)

(* e is the escape sequence at the head of the text.                       *)
regexpEscape(e, atoms) ==
    IF e.err THEN RegexpFail
    ELSE parseRegexp(e.rest, Append(atoms, LiteralAtom(e.lo)))

regexpLiteral(t, d, atoms) ==
    parseRegexp(Drop(t, d.size), Append(atoms, LiteralAtom(d.r)))

parseRegexp(t, atoms) ==
    IF Len(t) = 0 THEN [err |-> FALSE, re |-> atoms]
    ELSE IF t[1] = OpenSquare THEN regexpClass(Drop(t, 1), atoms)
    ELSE IF t[1] = Caret THEN parseRegexp(Drop(t, 1), Append(atoms, BeginText))
    ELSE IF t[1] = Backslash THEN regexpEscape(parseClassChar(t), atoms)
    ELSE regexpLiteral(t, DecodeRune(t), atoms)

regexpCompile(text) ==
    IF ~ValidUTF8(text) THEN RegexpFail
    ELSE parseRegexp(text, <<>>)

atomMatch(a, r) == a.neg # (\E rg \in a.ranges : rg[1] <= r /\ r <= rg[2])

(* regexMatchFunc: regex.MatchString(string(r)), an unanchored search in   *)
(* a text of one rune.  An expression of assertions only matches at the    *)
(* beginning; one that consumes two runes matches nowhere; else the one    *)
(* consuming atom takes r, and no ^ may follow it.                         *)
regexMatchFunc(re, r) ==
    \/ \A i \in 1..Len(re) : re[i].begin
    \/ /\ {i \in 1..Len(re) : ~re[i].begin} = {Len(re)}
       /\ atomMatch(re[Len(re)], r)

(***************************************************************************)
(* indexCloseSquare: the byte index of the ']' closing the bracket that    *)
(* starts str, or -1.  A second ']' right after the first is preferred     *)
(* (it closes "[[:alnum:]]"); a ']' that is the last character of str is   *)
(* never reported, because the loop ends before it looks at `match`.       *)
(***************************************************************************)
RECURSIVE indexCloseSquareFrom(_, _, _, _, _)
(* One iteration of the loop, on the rune d found at byte index i.         *)
indexCloseSquareAt(str, i, d, escape, match, matchIndex) ==
    IF match THEN (IF d.r = CloseSquare THEN i ELSE matchIndex)
    ELSE IF ~escape /\ d.r = Backslash
    THEN indexCloseSquareFrom(str, i + d.size, TRUE, match, matchIndex)
    ELSE IF ~escape /\ d.r = CloseSquare
    THEN indexCloseSquareFrom(str, i + d.size, FALSE, TRUE, i)
    ELSE indexCloseSquareFrom(str, i + d.size, FALSE, match, matchIndex)

indexCloseSquareFrom(str, i, escape, match, matchIndex) ==
    IF i >= Len(str) THEN 0 - 1
    ELSE indexCloseSquareAt(str, i, DecodeRune(Drop(str, i)), escape, match,
                            matchIndex)

indexCloseSquare(str) == indexCloseSquareFrom(str, 0, FALSE, FALSE, 0)

(***************************************************************************)
(* src/bracket.go: newBracket compiles the text of one bracket expression  *)
(* into a bracket (nonMatch, charRanges, runes), characterClass expands a  *)
(* named class.  charRanges and runes are kept as sets: bracket.match does *)
(* not depend on their order.  The text is one of one-byte characters, so  *)
(* that the index of a rune is the index of its byte in indexCloseSquare.  *)
(***************************************************************************)
characterClass(pat) ==
    CASE pat = <<91, 58, 97, 108, 110, 117, 109, 58, 93>>
           -> [err |-> FALSE, charRanges |-> {<<48, 57>>, <<97, 122>>, <<65, 90>>}, runes |-> {}]    \* alnum
      [] pat = <<91, 58, 97, 108, 112, 104, 97, 58, 93>>
           -> [err |-> FALSE, charRanges |-> {<<97, 122>>, <<65, 90>>}, runes |-> {}]    \* alpha
      [] pat = <<91, 58, 98, 108, 97, 110, 107, 58, 93>>
           -> [err |-> FALSE, charRanges |-> {<<9, 9>>}, runes |-> {32}]    \* blank
      [] pat = <<91, 58, 99, 110, 116, 114, 108, 58, 93>>
           -> [err |-> FALSE, charRanges |-> {<<0, 31>>}, runes |-> {127}]    \* cntrl
      [] pat = <<91, 58, 100, 105, 103, 105, 116, 58, 93>>
           -> [err |-> FALSE, charRanges |-> {<<48, 57>>}, runes |-> {}]    \* digit
      [] pat = <<91, 58, 103, 114, 97, 112, 104, 58, 93>>
           -> [err |-> FALSE, charRanges |-> {<<33, 126>>}, runes |-> {}]    \* graph
      [] pat = <<91, 58, 108, 111, 119, 101, 114, 58, 93>>
           -> [err |-> FALSE, charRanges |-> {<<97, 122>>}, runes |-> {}]    \* lower
      [] pat = <<91, 58, 112, 114, 105, 110, 116, 58, 93>>
           -> [err |-> FALSE, charRanges |-> {<<32, 126>>}, runes |-> {}]    \* print
      [] pat = <<91, 58, 112, 117, 110, 99, 116, 58, 93>>
           -> [err |-> FALSE, charRanges |-> {}, runes |-> {33, 45, 47, 58, 45, 64, 91, 45, 96, 123, 45, 126}]    \* punct
      [] pat = <<91, 58, 115, 112, 97, 99, 101, 58, 93>>
           -> [err |-> FALSE, charRanges |-> {}, runes |-> {9, 10, 11, 12, 13, 32}]    \* space
      [] pat = <<91, 58, 117, 112, 112, 101, 114, 58, 93>>
           -> [err |-> FALSE, charRanges |-> {<<65, 90>>}, runes |-> {}]    \* upper
      [] pat = <<91, 58, 120, 100, 105, 103, 105, 116, 58, 93>>
           -> [err |-> FALSE, charRanges |-> {<<48, 57>>, <<97, 102>>, <<65, 70>>}, runes |-> {}]    \* xdigit
      [] OTHER -> [err |-> TRUE, charRanges |-> {}, runes |-> {}]

BracketFail ==
    [err |-> TRUE, bracket |-> [nonMatch |-> FALSE, charRanges |-> {}, runes |-> {}]]

(* The loop of newBracket (lines 36-69) over the text between the outer    *)
(* brackets, from index i on.                                              *)
RECURSIVE newBracketLoop(_, _, _)
(* Lines 48-58: c is what characterClass returned.                         *)
newBracketAdd(pat, i, b, closeIndex, c) ==
    IF c.err THEN BracketFail
    ELSE newBracketLoop(pat, i + closeIndex + 1,
                        [b EXCEPT !.charRanges = @ \cup c.charRanges,
                                  !.runes = @ \cup c.runes])

(* Lines 43-47.                                                            *)
newBracketClass(pat, i, b, closeIndex) ==
    IF closeIndex = 0 - 1 THEN BracketFail
    ELSE newBracketAdd(pat, i, b, closeIndex,
                       characterClass(SubSeq(pat, i + 1, i + closeIndex + 1)))

newBracketLoop(pat, i, b) ==
    IF i >= Len(pat) THEN [err |-> FALSE, bracket |-> b]
    ELSE IF pat[i + 1] = Caret /\ i = 0
    THEN newBracketLoop(pat, i + 1, [b EXCEPT !.nonMatch = TRUE])
    ELSE IF pat[i + 1] = OpenSquare
    THEN newBracketClass(pat, i, b, indexCloseSquare(Drop(pat, i)))
    ELSE IF i + 2 < Len(pat) /\ pat[i + 2] = Hyphen
    THEN newBracketLoop(pat, i + 3,
                        [b EXCEPT !.charRanges = @ \cup {<<pat[i + 1], pat[i + 3]>>}])
    ELSE newBracketLoop(pat, i + 1, [b EXCEPT !.runes = @ \cup {pat[i + 1]}])

newBracket(pat) ==
    IF Len(pat) < 2 \/ Len(pat) = 2 THEN BracketFail
    ELSE newBracketLoop(SubSeq(pat, 2, Len(pat) - 1), 0,
                        [nonMatch |-> FALSE, charRanges |-> {}, runes |-> {}])

(* A match that forgets the negation for the members.                      *)
bracket_matchMembersUnnegated(b, r) ==
    IF \E cr \in b.charRanges : cr[1] <= r /\ cr[2] >= r THEN ~b.nonMatch
    ELSE IF r \in b.runes THEN TRUE
    ELSE b.nonMatch

(* bracket.match (lines 128-140).                                          *)
bracket_match(b, r) ==
    IF \E cr \in b.charRanges : cr[1] <= r /\ cr[2] >= r THEN ~b.nonMatch
    ELSE IF r \in b.runes THEN ~b.nonMatch
    ELSE b.nonMatch

(***************************************************************************)
(* The states of the pattern chain.                                        *)
(***************************************************************************)
matchedKind == "matched"

runeKind == "rune"

asteriskKind == "asterisk"

questionKind == "question"

regexKind == "regex"

startKind == "start"

State(kind, r, re) == [kind |-> kind, r |-> r, re |-> re]

(* state.match: runeMatchFunc, alwaysTrue, regexMatchFunc, alwaysFalse.    *)
(* An asterisk state has no match function; the matchers never call it.    *)
stateMatch(st, r) ==
    CASE st.kind = runeKind -> st.r = r
      [] st.kind = questionKind -> TRUE
      [] st.kind = regexKind -> regexMatchFunc(st.re, r)
      [] st.kind = matchedKind -> FALSE

(***************************************************************************)
(* Compile of src/glob.go.  i is the index into runes (from 0), also used  *)
(* by the code as a byte index into pattern for the bracket text.          *)
(***************************************************************************)
CompileFail == [err |-> TRUE, chain |-> <<>>, useDFA |-> FALSE]

(* The kind of startState, whatever has been appended since: not what the *)
(* asterisk case has to look at.                                           *)
startStateKind(chain) == startKind

patternStateKind(chain) ==
    IF chain = <<>> THEN startKind ELSE Last(chain).kind

RECURSIVE compileLoop(_, _, _, _, _, _)
(* The '[' case (lines 188-199): c is the result of regexp.Compile on      *)
(* pattern[i : i+end+1].                                                   *)
compileRegex(pattern, runes, i, chain, useDFA, end, c) ==
    IF c.err THEN CompileFail
    ELSE compileLoop(pattern, runes, i + end + 1, FALSE,
                     Append(chain, State(regexKind, 0, c.re)), useDFA)

compileBracket(pattern, runes, i, chain, useDFA, end) ==
    IF end = 0 - 1 THEN CompileFail
    ELSE compileRegex(pattern, runes, i, chain, useDFA, end,
                      regexpCompile(SubSeq(pattern, i + 1, i + end + 1)))

compileLoop(pattern, runes, i, escape, chain, useDFA) ==
    IF i >= Len(runes)
    THEN [err |-> FALSE,
          chain |-> Append(chain, State(matchedKind, 0, NoRegex)),
          useDFA |-> useDFA]
    ELSE LET r == runes[i + 1] IN
      IF ~escape /\ r = Backslash
      THEN compileLoop(pattern, runes, i + 1, TRUE, chain, useDFA)
      ELSE IF ~escape /\ r = Asterisk
      THEN IF patternStateKind(chain) = asteriskKind
           THEN compileLoop(pattern, runes, i + 1, escape, chain, useDFA)
           ELSE compileLoop(pattern, runes, i + 1, FALSE,
                            Append(chain, State(asteriskKind, 0, NoRegex)),
                            useDFA \/ i # Len(runes) - 1)
      ELSE IF ~escape /\ r = Question
      THEN compileLoop(pattern, runes, i + 1, FALSE,
                       Append(chain, State(questionKind, 0, NoRegex)), useDFA)
      ELSE IF ~escape /\ r = OpenSquare
      THEN compileBracket(pattern, runes, i, chain, useDFA,
                          indexCloseSquare(Drop(pattern, i)))
      ELSE compileLoop(pattern, runes, i + 1, FALSE,
                       Append(chain, State(runeKind, r, NoRegex)), useDFA)

globOf(pattern, c) ==
    [err |-> c.err, str |-> pattern, chain |-> c.chain, useDFA |-> c.useDFA]

Compile(pattern) ==
    globOf(pattern, compileLoop(pattern, RunesOf(pattern), 0, FALSE, <<>>, FALSE))

(***************************************************************************)
(* The three stepers.  step returns the next rune and the steper after     *)
(* the call; RuneError ends the input.  stringStep and byteStep leave      *)
(* their field alone on RuneError; the strings.Reader behind a readerStep  *)
(* has then consumed the byte (or the three bytes of U+FFFD) it read.      *)
(***************************************************************************)
stringStepType == "stringStep"

byteStepType == "byteStep"

readerStepType == "readerStep"

newStringStep(s) == [type |-> stringStepType, data |-> s, pos |-> 0]

newByteStep(bs) == [type |-> byteStepType, data |-> bs, pos |-> 0]

newReaderStep(s) == [type |-> readerStepType, data |-> s, pos |-> 0]

(* The lines after the decoding, d being the rune and its size.            *)
consume(sp, d) ==
    IF d.r = RuneError THEN [r |-> RuneError, steper |-> sp]
    ELSE [r |-> d.r, steper |-> [sp EXCEPT !.data = Drop(sp.data, d.size)]]

stringStep_step(sp) == consume(sp, DecodeRune(sp.data))

byteStep_step(sp) == consume(sp, DecodeRune(sp.data))

(* strings.Reader.ReadRune: io.EOF at the end; else it decodes at its      *)
(* position and advances by the width, also for an undecodable byte.       *)
readRune(sp, d) == [r |-> d.r, steper |-> [sp EXCEPT !.pos = sp.pos + d.size]]

readerStep_step(sp) ==
    IF sp.pos >= Len(sp.data) THEN [r |-> RuneError, steper |-> sp]
    ELSE readRune(sp, DecodeRune(Drop(sp.data, sp.pos)))

step(sp) ==
    CASE sp.type = stringStepType -> stringStep_step(sp)
      [] sp.type = byteStepType -> byteStep_step(sp)
      [] sp.type = readerStepType -> readerStep_step(sp)

(***************************************************************************)
(* onePassMatch: the loop of lines 256-264 from state chain[k], then the   *)
(* return of line 265.                                                     *)
(***************************************************************************)
RECURSIVE onePassLoop(_, _, _)
(* s is what steper.step() returned: the rune and the steper after it.     *)
onePassOn(chain, k, s) ==
    IF s.r = RuneError
    THEN [res |-> chain[k].kind = asteriskKind \/ chain[k].kind = matchedKind,
          steper |-> s.steper]
    ELSE IF chain[k].kind = asteriskKind THEN [res |-> TRUE, steper |-> s.steper]
    ELSE IF ~stateMatch(chain[k], s.r) THEN [res |-> FALSE, steper |-> s.steper]
    ELSE onePassLoop(chain, k + 1, s.steper)

onePassLoop(chain, k, sp) == onePassOn(chain, k, step(sp))

onePassMatch(g, sp) == onePassLoop(g.chain, 1, sp)

(***************************************************************************)
(* The dfaState graph that hangs off one pooled start state.  A dfaState   *)
(* is only reachable through the next map of the state that created it     *)
(* (or through a self loop), so it is named by the runes of the creating   *)
(* transitions from the start state.  A slice is a backing array, named    *)
(* by the dfaState whose creation allocated it, and a length; the          *)
(* capacity is the length of the array, and cells past every slice's       *)
(* length hold 0.  list is never appended to after its dfaState is built,  *)
(* so it is kept as a value.                                               *)
(***************************************************************************)
NilArr == <<0 - 1>>

EmptyMap == [x \in {} |-> <<>>]

MapPut(m, k, v) == [x \in DOMAIN m \cup {k} |-> IF x = k THEN v ELSE m[x]]

Zeros(n) == [i \in 1..n |-> 0]

(* runtime.growslice for one more pointer: 0 -> 1, else doubling.          *)
growCap(cap) == IF cap = 0 THEN 1 ELSE 2 * cap

(* The New function of glob.dfaPool (lines 213-221).                       *)
dfaNew(chain) ==
    IF chain[1].kind = asteriskKind
    THEN [st |-> (<<>> :> [list |-> <<>>, arr |-> <<>>, len |-> 1, next |-> EmptyMap]),
          arr |-> (<<>> :> <<2>>)]
    ELSE [st |-> (<<>> :> [list |-> <<1>>, arr |-> NilArr, len |-> 0, next |-> EmptyMap]),
          arr |-> EmptyMap]

sliceElems(arrs, id, len) ==
    IF id = NilArr THEN <<>> ELSE SubSeq(arrs[id], 1, len)

(* append(asteriskNexts, x) on the local slice header acc: in place when   *)
(* the capacity allows, which writes the backing array the header shares   *)
(* with dfa.asteriskNexts; else into a new array.                          *)
appendAsteriskNexts(acc, x) ==
    LET cap == IF acc.own THEN Len(acc.cells)
               ELSE IF acc.id = NilArr THEN 0 ELSE Len(acc.arrs[acc.id])
        elems == IF acc.own THEN SubSeq(acc.cells, 1, acc.len)
                 ELSE sliceElems(acc.arrs, acc.id, acc.len)
    IN IF acc.len < cap
       THEN IF acc.own
            THEN [acc EXCEPT !.cells[acc.len + 1] = x, !.len = acc.len + 1]
            ELSE [acc EXCEPT !.arrs[acc.id][acc.len + 1] = x, !.len = acc.len + 1]
       ELSE [acc EXCEPT !.own = TRUE,
                        !.cells = elems \o <<x>> \o Zeros(growCap(cap) - acc.len - 1),
                        !.len = acc.len + 1]

(* The two nested loops of lines 286-301 over dfa.list and then            *)
(* dfa.asteriskNexts, from the j-th of these states on.                    *)
RECURSIVE dfaScan(_, _, _, _, _)
dfaScan(chain, states, j, r, acc) ==
    IF j > Len(states) THEN acc
    ELSE LET k == states[j] IN
      IF ~stateMatch(chain[k], r) THEN dfaScan(chain, states, j + 1, r, acc)
      ELSE IF chain[k + 1].kind = asteriskKind
      THEN IF chain[k + 2].kind = matchedKind
           THEN [acc EXCEPT !.matched = TRUE]
           ELSE dfaScan(chain, states, j + 1, r, appendAsteriskNexts(acc, k + 2))
      ELSE dfaScan(chain, states, j + 1, r, [acc EXCEPT !.nlist = Append(@, k + 1)])

(* The lines after the two loops (302-308) of dfaState p with fields d, on *)
(* rune r: acc is what the loops left, c the name of a new dfaState.       *)
dfaAfterScan(cache, p, r, d, acc, c) ==
    IF acc.matched
    THEN [verdict |-> "true", cache |-> [cache EXCEPT !.arr = acc.arrs], cur |-> p]
    ELSE IF acc.nlist = <<>> /\ d.list = <<>> /\ acc.len = d.len
    THEN [verdict |-> "next",
          cache |-> [cache EXCEPT !.st[p].next = MapPut(@, r, p)],
          cur |-> p]
    ELSE [verdict |-> "next",
          cache |-> [st |-> MapPut([cache.st EXCEPT ![p].next = MapPut(@, r, c)],
                                   c,
                                   [list |-> acc.nlist,
                                    arr |-> IF acc.own THEN c ELSE acc.id,
                                    len |-> acc.len,
                                    next |-> EmptyMap]),
                     arr |-> IF acc.own THEN MapPut(acc.arrs, c, acc.cells)
                             ELSE acc.arrs],
          cur |-> c]

(* The two loops run from the local nlist and asteriskNexts of lines       *)
(* 282-285, over the states of dfaState d.                                 *)
dfaScanAll(chain, cache, d, r) ==
    dfaScan(chain, d.list \o sliceElems(cache.arr, d.arr, d.len), 1, r,
            [arrs |-> cache.arr, own |-> FALSE, id |-> d.arr, cells |-> <<>>,
             len |-> d.len, nlist |-> <<>>, matched |-> FALSE])

(* One uncached transition of dfaState p on rune r (lines 282-308).        *)
dfaTransition(chain, cache, p, r) ==
    dfaAfterScan(cache, p, r, cache.st[p],
                 dfaScanAll(chain, cache, cache.st[p], r), Append(p, r))

(* One iteration of the loop of dfaMatch on rune r (lines 273-308).        *)
dfaStep(chain, cache, p, r) ==
    LET d == cache.st[p] IN
    IF r \in DOMAIN d.next
    THEN [verdict |-> "next", cache |-> cache, cur |-> d.next[r]]
    ELSE IF d.list = <<>> /\ d.len = 0
    THEN [verdict |-> "false", cache |-> cache, cur |-> p]
    ELSE dfaTransition(chain, cache, p, r)

(* The loop after the input (lines 311-319).                               *)
dfaAccepts(chain, cache, p) ==
    \E j \in 1..Len(cache.st[p].list) :
        LET k == cache.st[p].list[j] IN
        \/ (chain[k].kind = asteriskKind /\ chain[k + 1].kind = matchedKind)
        \/ chain[k].kind = matchedKind

RECURSIVE dfaLoop(_, _, _, _)
(* t is the outcome of one iteration: return true, return false, or go on  *)
(* from dfaState t.cur.                                                    *)
dfaAfterStep(chain, t, steper) ==
    IF t.verdict = "true"
    THEN [res |-> TRUE, cache |-> t.cache, steper |-> steper]
    ELSE IF t.verdict = "false"
    THEN [res |-> FALSE, cache |-> t.cache, steper |-> steper]
    ELSE dfaLoop(chain, t.cache, t.cur, steper)

(* s is what steper.step() returned: the rune and the steper after it.     *)
dfaLoopOn(chain, cache, p, s) ==
    IF s.r = RuneError
    THEN [res |-> dfaAccepts(chain, cache, p), cache |-> cache, steper |-> s.steper]
    ELSE dfaAfterStep(chain, dfaStep(chain, cache, p, s.r), s.steper)

dfaLoop(chain, cache, p, sp) == dfaLoopOn(chain, cache, p, step(sp))

(* dfaMatch on the dfaState graph taken from the pool: the result, the     *)
(* graph that is put back, and the steper after the call.                  *)
dfaMatch(g, cache, sp) == dfaLoop(g.chain, cache, <<>>, sp)

(***************************************************************************)
(* The universe of the model: patterns and inputs are concatenations of a  *)
(* few characters.  ReplacementChar is the well-formed encoding of U+FFFD, *)
(* InvalidByte a byte that starts no encoding.                             *)
(***************************************************************************)
ReplacementChar == <<239, 191, 189>>

InvalidByte == <<255>>

PatChars ==
    {<<LetterA>>, <<LetterB>>, <<Asterisk>>, <<Question>>, <<Backslash>>,
     ReplacementChar}

InChars == {<<LetterA>>, <<LetterB>>, ReplacementChar, InvalidByte}

(* Patterns with a bracket expression: "[ab]a", "[^a]*", "*[a]b".          *)
BracketPatterns ==
    {<<OpenSquare, LetterA, LetterB, CloseSquare, LetterA>>,
     <<OpenSquare, Caret, LetterA, CloseSquare, Asterisk>>,
     <<Asterisk, OpenSquare, LetterA, CloseSquare, LetterB>>}

Patterns ==
    {Flatten(cs) : cs \in SeqsUpTo(PatChars, MaxPatLen)} \cup BracketPatterns

Inputs == {Flatten(cs) : cs \in SeqsUpTo(InChars, MaxInLen)}

(***************************************************************************)
(* The state of the program: the pattern and the Glob that Compile made    *)
(* of it, the three package-level steper pools, the Glob's dfaPool, the    *)
(* package-level backTrackPool and nfaPool of the newest program           *)
(* (src/unnamed/part_004; the others have no such pools and leave them     *)
(* empty), and the caller: pc is "idle" between calls and "returned" when  *)
(* a call has ended, with its outcome in last.  conc holds the calls in    *)
(* flight when several goroutines use the Glob.  firstOutcome is history:  *)
(* for each input of TrackedInputs, the outcome of the first call on it.   *)
(***************************************************************************)
VARIABLES pattern, glob, stringStepPool, byteStepPool, readerStepPool,
          dfaPool, backTrackPool, nfaPool, pc, last, conc, firstOutcome

vars ==
    <<pattern, glob, stringStepPool, byteStepPool, readerStepPool,
      dfaPool, backTrackPool, nfaPool, pc, last, conc, firstOutcome>>

(***************************************************************************)
(* sync.Pool.  A pool is the sequence of the items put and not yet taken.  *)
(* Get hands out any pooled item, or ignores the pool and calls New; Put   *)
(* keeps the item while the pool has room and discards it otherwise (a     *)
(* pool may release an item at any time).  Stepers are overwritten by      *)
(* their next user, so a pooled steper is its dynamic type.                *)
(***************************************************************************)
poolGet(pool, new) ==
    {[item |-> pool[i],
      rest |-> SubSeq(pool, 1, i - 1) \o SubSeq(pool, i + 1, Len(pool))] :
        i \in 1..Len(pool)}
    \cup {[item |-> new, rest |-> pool]}

poolPut(pool, x) == IF Len(pool) < MaxPool THEN Append(pool, x) ELSE pool

(* The outcome of a call: the boolean it returns, or the panic of a failed  *)
(* type assertion on the item that Get handed out.                         *)
Panic == "panic"

ReturnsTrue == "true"

ReturnsFalse == "false"

Returned(b) == IF b THEN ReturnsTrue ELSE ReturnsFalse

NoCall == [op |-> "none", input |-> <<>>, outcome |-> "none"]

MatchStringOp == "MatchString"

MatchOp == "Match"

MatchReaderOp == "MatchReader"

Ops == {MatchStringOp, MatchOp, MatchReaderOp}

(* The inputs whose first outcome is remembered: "aaa", "aab", "aaac",     *)
(* "abcd", "aba".                                                          *)
TrackedInputs ==
    {<<LetterA, LetterA, LetterA>>,
     <<LetterA, LetterA, LetterB>>,
     <<LetterA, LetterA, LetterA, LetterC>>,
     <<LetterA, LetterB, LetterC, LetterD>>,
     <<LetterA, LetterB, LetterA>>}

recordFirst(s, outcome) ==
    IF s \in TrackedInputs /\ firstOutcome[s] = "none"
    THEN [firstOutcome EXCEPT ![s] = outcome]
    ELSE firstOutcome

(***************************************************************************)
(* The tail shared by Match, MatchString and MatchReader (lines 329-332,   *)
(* 342-345, 355-358): onePassMatch when the Glob has a onePassState, else  *)
(* dfaMatch, which takes a start state from dfaPool and puts it back.      *)
(* The result is the set of (result, dfaPool afterwards) pairs.            *)
(***************************************************************************)
dfaPut(rest, m) == [res |-> m.res, dfaPool |-> poolPut(rest, m.cache)]

matchWith(sp) ==
    IF ~glob.useDFA
    THEN {[res |-> onePassMatch(glob, sp).res, dfaPool |-> dfaPool]}
    ELSE {dfaPut(gd.rest, dfaMatch(glob, gd.item, sp)) :
            gd \in poolGet(dfaPool, dfaNew(glob.chain))}

(***************************************************************************)
(* One call from its first line: Get on the pool `from`, the assertion of  *)
(* the type `type` (a failed assertion panics before the deferred Put is   *)
(* registered, so the item is lost), then the match on steper sp.          *)
(***************************************************************************)
callOutcomes(from, type, sp) ==
    UNION {IF gs.item # type
           THEN {[outcome |-> Panic, rest |-> gs.rest, dfaPool |-> dfaPool,
                  put |-> FALSE]}
           ELSE {[outcome |-> Returned(m.res), rest |-> gs.rest, dfaPool |-> m.dfaPool,
                  put |-> TRUE] : m \in matchWith(sp)} :
             gs \in poolGet(from, type)}

(* The outcomes of operation op on input s in the current state.           *)
outcomesOf(op, s) ==
    CASE op = MatchStringOp ->
           {c.outcome : c \in callOutcomes(stringStepPool, stringStepType,
                                           newStringStep(s))}
      [] op = MatchOp ->
           {c.outcome : c \in callOutcomes(byteStepPool, byteStepType,
                                           newByteStep(s))}
      [] op = MatchReaderOp ->
           {c.outcome : c \in callOutcomes(readerStepPool, readerStepType,
                                           newReaderStep(s))}

(***************************************************************************)
(* Init: a pattern has been compiled (glob.err tells a failed Compile, on  *)
(* which there is nothing to call); nothing is pooled yet.                 *)
(***************************************************************************)
InitOver(pats) ==
    /\ pattern \in pats
    /\ glob = Compile(pattern)
    /\ stringStepPool = <<>>
    /\ byteStepPool = <<>>
    /\ readerStepPool = <<>>
    /\ dfaPool = <<>>
    /\ backTrackPool = <<>>
    /\ nfaPool = <<>>
    /\ pc = "idle"
    /\ last = NoCall
    /\ conc = <<>>
    /\ firstOutcome = [s \in TrackedInputs |-> "none"]

Init == InitOver(Patterns)

(* MatchString (lines 336-346): the steper comes from stringStepPool and   *)
(* goes back to it.                                                        *)
MatchString(s) ==
    /\ pc = "idle"
    /\ ~glob.err
    /\ \E c \in callOutcomes(stringStepPool, stringStepType, newStringStep(s)) :
         /\ stringStepPool' =
              IF c.put THEN poolPut(c.rest, stringStepType) ELSE c.rest
         /\ dfaPool' = c.dfaPool
         /\ last' = [op |-> MatchStringOp, input |-> s, outcome |-> c.outcome]
         /\ firstOutcome' = recordFirst(s, c.outcome)
    /\ pc' = "returned"
    /\ UNCHANGED <<pattern, glob, backTrackPool, nfaPool, byteStepPool, readerStepPool, conc>>

(* Match (lines 323-333): the steper comes from byteStepPool and the       *)
(* deferred function puts it into stringStepPool.                          *)
Match(bs) ==
    /\ pc = "idle"
    /\ ~glob.err
    /\ \E c \in callOutcomes(byteStepPool, byteStepType, newByteStep(bs)) :
         /\ byteStepPool' = c.rest
         /\ stringStepPool' =
              IF c.put THEN poolPut(stringStepPool, byteStepType)
              ELSE stringStepPool
         /\ dfaPool' = c.dfaPool
         /\ last' = [op |-> MatchOp, input |-> bs, outcome |-> c.outcome]
         /\ firstOutcome' = recordFirst(bs, c.outcome)
    /\ pc' = "returned"
    /\ UNCHANGED <<pattern, glob, backTrackPool, nfaPool, readerStepPool, conc>>

(* MatchReader (lines 349-359) on a strings.Reader over s: the steper      *)
(* comes from readerStepPool and the deferred function puts it into        *)
(* stringStepPool.                                                         *)
MatchReader(s) ==
    /\ pc = "idle"
    /\ ~glob.err
    /\ \E c \in callOutcomes(readerStepPool, readerStepType, newReaderStep(s)) :
         /\ readerStepPool' = c.rest
         /\ stringStepPool' =
              IF c.put THEN poolPut(stringStepPool, readerStepType)
              ELSE stringStepPool
         /\ dfaPool' = c.dfaPool
         /\ last' = [op |-> MatchReaderOp, input |-> s, outcome |-> c.outcome]
         /\ firstOutcome' = recordFirst(s, c.outcome)
    /\ pc' = "returned"
    /\ UNCHANGED <<pattern, glob, backTrackPool, nfaPool, byteStepPool, conc>>

(* The caller has read the outcome (or recovered from the panic) and is    *)
(* ready for its next call.                                                *)
CallerContinues ==
    /\ pc = "returned"
    /\ pc' = "idle"
    /\ last' = NoCall
    /\ UNCHANGED <<pattern, glob, backTrackPool, nfaPool, stringStepPool, byteStepPool,
                   readerStepPool, dfaPool, conc, firstOutcome>>

(* The garbage collector empties the pools (sync.Pool's poolCleanup).      *)
poolCleanup ==
    /\ pc = "idle"
    /\ \/ stringStepPool # <<>>
       \/ byteStepPool # <<>>
       \/ readerStepPool # <<>>
       \/ dfaPool # <<>>
       \/ backTrackPool # <<>>
       \/ nfaPool # <<>>
    /\ stringStepPool' = <<>>
    /\ byteStepPool' = <<>>
    /\ readerStepPool' = <<>>
    /\ dfaPool' = <<>>
    /\ backTrackPool' = <<>>
    /\ nfaPool' = <<>>
    /\ UNCHANGED <<pattern, glob, pc, last, conc, firstOutcome>>

Next ==
    \/ \E s \in Inputs : MatchString(s)
    \/ \E bs \in Inputs : Match(bs)
    \/ \E s \in Inputs : MatchReader(s)
    \/ CallerContinues
    \/ poolCleanup

Spec == Init /\ [][Next]_vars

(***************************************************************************)
(* The same program on patterns with several asterisks, whose dfaState     *)
(* graphs share backing arrays between asteriskNexts slices, called on     *)
(* the inputs that walk these graphs:                                      *)
(*   "*a*b*c"    on "aaa", "aab", "aaac";                                  *)
(*   "*a*b*c*d*" on "abcd", "aba".                                         *)
(***************************************************************************)
CachePatterns ==
    {<<Asterisk, LetterA, Asterisk, LetterB, Asterisk, LetterC>>,
     <<Asterisk, LetterA, Asterisk, LetterB, Asterisk, LetterC, Asterisk,
       LetterD, Asterisk>>}

CacheInputs == TrackedInputs

InitCache == InitOver(CachePatterns)

NextCache ==
    \/ \E s \in CacheInputs : MatchString(s)
    \/ \E bs \in CacheInputs : Match(bs)
    \/ \E s \in CacheInputs : MatchReader(s)
    \/ CallerContinues
    \/ poolCleanup

SpecCache == InitCache /\ [][NextCache]_vars

(***************************************************************************)
(* The same program on patterns with bracket expressions: every pattern    *)
(* of up to MaxBracketLen characters over a, '[', ']', '^', '\' and        *)
(* U+FFFD (a character of three bytes, after which the index of a rune     *)
(* and the index of its first byte differ), and "[^abc]".                  *)
(***************************************************************************)
MaxBracketLen == 4

BracketChars ==
    {<<LetterA>>, <<OpenSquare>>, <<CloseSquare>>, <<Caret>>, <<Backslash>>,
     ReplacementChar}

NotABC == <<OpenSquare, Caret, LetterA, LetterB, LetterC, CloseSquare>>

BracketUniverse ==
    {Flatten(cs) : cs \in SeqsUpTo(BracketChars, MaxBracketLen)} \cup {NotABC}

(* "", "a", "d", "]", "^", "aa", "a]".                                      *)
BracketInputs ==
    {<<>>, <<LetterA>>, <<LetterD>>, <<CloseSquare>>, <<Caret>>,
     <<LetterA, LetterA>>, <<LetterA, CloseSquare>>}

InitBracket == InitOver(BracketUniverse)

NextBracket ==
    \/ \E s \in BracketInputs : MatchString(s)
    \/ \E bs \in BracketInputs : Match(bs)
    \/ \E s \in BracketInputs : MatchReader(s)
    \/ CallerContinues
    \/ poolCleanup

SpecBracket == InitBracket /\ [][NextBracket]_vars

(***************************************************************************)
(* The same program on bracket expressions with named classes: a '[', an   *)
(* optional '^', up to MaxClassItems items of a, "[:alpha:]", "[:digit:]", *)
(* "[:word:]", "[:^alpha:]" and "[:foo:]", a ']', and then nothing or a.   *)
(***************************************************************************)
MaxClassItems == 2

ClassItems ==
    {<<LetterA>>,
     <<91, 58, 97, 108, 112, 104, 97, 58, 93>>,
     <<91, 58, 100, 105, 103, 105, 116, 58, 93>>,
     <<91, 58, 119, 111, 114, 100, 58, 93>>,
     <<91, 58, 94, 97, 108, 112, 104, 97, 58, 93>>,
     <<91, 58, 102, 111, 111, 58, 93>>}

ClassPatterns ==
    {<<OpenSquare>> \o neg \o Flatten(items) \o <<CloseSquare>> \o after :
        neg \in {<<>>, <<Caret>>},
        items \in SeqsUpTo(ClassItems, MaxClassItems) \ {<<>>},
        after \in {<<>>, <<LetterA>>}}

(* "", "a", "1", "_", "aa".                                                *)
ClassInputs == {<<>>, <<LetterA>>, <<49>>, <<95>>, <<LetterA, LetterA>>}

InitClass == InitOver(ClassPatterns)

NextClass ==
    \/ \E s \in ClassInputs : MatchString(s)
    \/ \E bs \in ClassInputs : Match(bs)
    \/ \E s \in ClassInputs : MatchReader(s)
    \/ CallerContinues
    \/ poolCleanup

SpecClass == InitClass /\ [][NextClass]_vars

(***************************************************************************)
(* The older program of src/unnamed/part_002: Compile first classifies     *)
(* the pattern (equal, forward, backward, partial, or glob for the rest)   *)
(* and builds the chain of states only for glob; Match(s string) answers   *)
(* the four classified shapes by comparing bytes.                          *)
(***************************************************************************)
equalPatten == "equalPatten"

globPattern == "globPattern"

reverseGlobPattern == "reverseGlobPattern"

onePassPattern == "onePassPattern"

backwardPattern == "backwardPattern"

forwardPattern == "forwardPattern"

partialPattern == "partialPattern"

Shape(matchp, matchIndex, lastIndex) ==
    [matchp |-> matchp, matchIndex |-> matchIndex, lastIndex |-> lastIndex]

(* The first loop of Compile (lines 107-147), from byte index i on.        *)
RECURSIVE shapeLoop(_, _, _, _, _, _)
(* One iteration, on the rune d found at byte index i.                     *)
shapeAt(pat, i, d, matchp, matchIndex, lastIndex, escape) ==
    IF ~escape /\ d.r = Backslash
    THEN shapeLoop(pat, i + d.size, matchp, matchIndex, lastIndex, TRUE)
    ELSE IF (~escape /\ d.r = Question) \/ d.r = OpenSquare
    THEN Shape(globPattern, matchIndex, lastIndex)
    ELSE IF ~escape /\ i = 0 /\ d.r = Asterisk
    THEN shapeLoop(pat, i + d.size, backwardPattern, Len(pat) - 1, lastIndex, FALSE)
    ELSE IF ~escape /\ matchp = backwardPattern /\ d.r = Asterisk
    THEN IF pat[i] = Asterisk
         THEN shapeLoop(pat, i + d.size, matchp, matchIndex - 1, lastIndex, escape)
         ELSE shapeLoop(pat, i + d.size, partialPattern, Len(pat) - matchIndex,
                        i, FALSE)
    ELSE IF matchp = partialPattern /\ d.r # Asterisk
    THEN Shape(globPattern, matchIndex, lastIndex)
    ELSE IF ~escape /\ matchp = equalPatten /\ d.r = Asterisk
    THEN shapeLoop(pat, i + d.size, forwardPattern, i, lastIndex, FALSE)
    ELSE IF matchp = forwardPattern /\ d.r # Asterisk
    THEN Shape(globPattern, matchIndex, lastIndex)
    ELSE shapeLoop(pat, i + d.size, matchp, matchIndex, lastIndex, FALSE)

shapeLoop(pat, i, matchp, matchIndex, lastIndex, escape) ==
    IF i >= Len(pat) THEN Shape(matchp, matchIndex, lastIndex)
    ELSE shapeAt(pat, i, DecodeRune(Drop(pat, i)), matchp, matchIndex,
                 lastIndex, escape)

shapeOf(pat) == shapeLoop(pat, 0, equalPatten, 0, 0, FALSE)

(* The second loop of Compile (lines 156-190): the chain of states, and    *)
(* whether it has an asterisk (matchPattern = globPattern).                *)
ChainFail_part002 == [err |-> TRUE, chain |-> <<>>, asterisk |-> FALSE]

RECURSIVE chainLoop_part002(_, _, _, _, _, _)
chainRegex_part002(pat, runes, i, chain, asterisk, end, c) ==
    IF c.err THEN ChainFail_part002
    ELSE chainLoop_part002(pat, runes, i + end + 1, FALSE,
                           Append(chain, State(regexKind, 0, c.re)), asterisk)

chainBracket_part002(pat, runes, i, chain, asterisk, end) ==
    IF end = 0 - 1 THEN ChainFail_part002
    ELSE chainRegex_part002(pat, runes, i, chain, asterisk, end,
                            regexpCompile(SubSeq(pat, i + 1, i + end + 1)))

chainAt_part002(pat, runes, i, r, escape, chain, asterisk) ==
    IF ~escape /\ r = Backslash
    THEN chainLoop_part002(pat, runes, i + 1, TRUE, chain, asterisk)
    ELSE IF ~escape /\ r = Asterisk
    THEN IF patternStateKind(chain) = asteriskKind
         THEN chainLoop_part002(pat, runes, i + 1, escape, chain, asterisk)
         ELSE chainLoop_part002(pat, runes, i + 1, FALSE,
                                Append(chain, State(asteriskKind, 0, NoRegex)),
                                TRUE)
    ELSE IF ~escape /\ r = Question
    THEN chainLoop_part002(pat, runes, i + 1, FALSE,
                           Append(chain, State(questionKind, 0, NoRegex)),
                           asterisk)
    ELSE IF ~escape /\ r = OpenSquare
    THEN chainBracket_part002(pat, runes, i, chain, asterisk,
                              indexCloseSquare(Drop(pat, i)))
    ELSE chainLoop_part002(pat, runes, i + 1, FALSE,
                           Append(chain, State(runeKind, r, NoRegex)), asterisk)

chainLoop_part002(pat, runes, i, escape, chain, asterisk) ==
    IF i >= Len(runes)
    THEN [err |-> FALSE, chain |-> chain, asterisk |-> asterisk]
    ELSE chainAt_part002(pat, runes, i, runes[i + 1], escape, chain, asterisk)

Reverse(s) == [i \in 1..Len(s) |-> s[Len(s) + 1 - i]]

(* Lines 190-213: the matched state, the reversal of the chain of a        *)
(* pattern that starts with an asterisk and does not end with one, and     *)
(* the Glob.  c is what the second loop built.                             *)
globOf_part002(pat, runes, c) ==
    IF c.err
    THEN [err |-> TRUE, str |-> <<>>, matchPattern |-> globPattern,
          matchIndex |-> 0, chain |-> <<>>]
    ELSE IF Len(runes) >= 2 /\ runes[1] = Asterisk /\ Last(runes) # Asterisk
    THEN [err |-> FALSE, str |-> pat, matchPattern |-> reverseGlobPattern,
          matchIndex |-> 0,
          chain |-> Append(Reverse(c.chain), State(matchedKind, 0, NoRegex))]
    ELSE [err |-> FALSE, str |-> pat,
          matchPattern |-> IF c.asterisk THEN globPattern ELSE onePassPattern,
          matchIndex |-> 0,
          chain |-> Append(c.chain, State(matchedKind, 0, NoRegex))]

(* The branch of Compile for matchp = globPattern (lines 148-214).         *)
compileGlob_part002(pat) ==
    globOf_part002(pat, RunesOf(pat),
                   chainLoop_part002(pat, RunesOf(pat), 0, FALSE, <<>>, FALSE))

(* The end of Compile (lines 148, 215-225) for the shape sh.               *)
compileShape_part002(pat, sh) ==
    IF sh.matchp = globPattern THEN compileGlob_part002(pat)
    ELSE IF sh.matchp = partialPattern
    THEN [err |-> FALSE, str |-> SubSeq(pat, sh.matchIndex + 1, sh.lastIndex),
          matchPattern |-> sh.matchp, matchIndex |-> 0, chain |-> <<>>]
    ELSE [err |-> FALSE, str |-> pat, matchPattern |-> sh.matchp,
          matchIndex |-> sh.matchIndex, chain |-> <<>>]

Compile_part002(pat) == compileShape_part002(pat, shapeOf(pat))

(* onePassMatch of part_002 (lines 254-263) from state chain[k], on the    *)
(* runes of s from the i-th on.                                            *)
RECURSIVE onePassMatch_part002(_, _, _, _)
onePassMatch_part002(chain, runes, k, i) ==
    IF i > Len(runes) THEN chain[k].kind = matchedKind
    ELSE IF ~stateMatch(chain[k], runes[i]) THEN FALSE
    ELSE onePassMatch_part002(chain, runes, k + 1, i + 1)

(* The New function of glob.dfaPool (lines 205-211).                       *)
dfaNew_part002(chain) ==
    [st |-> (<<>> :> [list |-> IF chain[1].kind = asteriskKind
                               THEN <<1, 2>> ELSE <<1>>,
                      arr |-> NilArr, len |-> 0, next |-> EmptyMap]),
     arr |-> EmptyMap]

(* The loop over dfa.list (lines 282-295) from its j-th state on.          *)
RECURSIVE dfaScanList_part002(_, _, _, _, _)
dfaScanList_part002(chain, list, j, r, acc) ==
    IF j > Len(list) THEN acc
    ELSE IF chain[list[j]].kind = asteriskKind
    THEN IF chain[list[j] + 1].kind = matchedKind
         THEN [acc EXCEPT !.matched = TRUE]
         ELSE dfaScanList_part002(chain, list, j + 1, r,
                                  appendAsteriskNexts(acc, list[j] + 1))
    ELSE IF stateMatch(chain[list[j]], r)
    THEN dfaScanList_part002(chain, list, j + 1, r,
                             [acc EXCEPT !.nlist = Append(@, list[j] + 1)])
    ELSE dfaScanList_part002(chain, list, j + 1, r, acc)

(* The loop over dfa.asteriskNexts (lines 296-300), whose states are       *)
(* elems; it is not reached when the first loop returned.                  *)
RECURSIVE dfaScanNexts_part002(_, _, _, _, _)
dfaScanNexts_part002(chain, elems, j, r, acc) ==
    IF acc.matched \/ j > Len(elems) THEN acc
    ELSE IF stateMatch(chain[elems[j]], r)
    THEN dfaScanNexts_part002(chain, elems, j + 1, r,
                              [acc EXCEPT !.nlist = Append(@, elems[j] + 1)])
    ELSE dfaScanNexts_part002(chain, elems, j + 1, r, acc)

dfaScanAll_part002(chain, cache, d, r) ==
    dfaScanNexts_part002(
        chain, sliceElems(cache.arr, d.arr, d.len), 1, r,
        dfaScanList_part002(chain, d.list, 1, r,
                            [arrs |-> cache.arr, own |-> FALSE, id |-> d.arr,
                             cells |-> <<>>, len |-> d.len, nlist |-> <<>>,
                             matched |-> FALSE]))

(* Lines 287-289 and 301-306: acc is what the loops left, c the name of    *)
(* the new dfaState, which loops on r to itself when its list is empty.    *)
dfaAfterScan_part002(cache, p, r, acc, c) ==
    IF acc.matched
    THEN [verdict |-> "true", cache |-> [cache EXCEPT !.arr = acc.arrs], cur |-> p]
    ELSE [verdict |-> "next",
          cache |-> [st |-> MapPut([cache.st EXCEPT ![p].next = MapPut(@, r, c)],
                                   c,
                                   [list |-> acc.nlist,
                                    arr |-> IF acc.own THEN c ELSE acc.id,
                                    len |-> acc.len,
                                    next |-> IF acc.nlist = <<>>
                                             THEN MapPut(EmptyMap, r, c)
                                             ELSE EmptyMap]),
                     arr |-> IF acc.own THEN MapPut(acc.arrs, c, acc.cells)
                             ELSE acc.arrs],
          cur |-> c]

(* One uncached transition of dfaState p on rune r (lines 278-306).        *)
dfaTransition_part002(chain, cache, p, r) ==
    dfaAfterScan_part002(cache, p, r,
                         dfaScanAll_part002(chain, cache, cache.st[p], r),
                         Append(p, r))

(* dfaMatch of part_002 (lines 265-321) from dfaState p on the runes from  *)
(* the i-th on: the result, the graph, and whether the code puts the       *)
(* graph back (the return of line 276 does not).                           *)
RECURSIVE dfaLoop_part002(_, _, _, _, _)
dfaAfterStep_part002(chain, t, runes, i) ==
    IF t.verdict = "true"
    THEN [res |-> TRUE, cache |-> t.cache, put |-> TRUE]
    ELSE dfaLoop_part002(chain, t.cache, t.cur, runes, i + 1)

dfaLoop_part002(chain, cache, p, runes, i) ==
    IF i > Len(runes)
    THEN [res |-> dfaAccepts(chain, cache, p), cache |-> cache, put |-> TRUE]
    ELSE IF runes[i] \in DOMAIN cache.st[p].next
    THEN dfaLoop_part002(chain, cache, cache.st[p].next[runes[i]], runes, i + 1)
    ELSE IF cache.st[p].list = <<>> /\ cache.st[p].len = 0
    THEN [res |-> FALSE, cache |-> cache, put |-> FALSE]
    ELSE dfaAfterStep_part002(chain, dfaTransition_part002(chain, cache, p, runes[i]),
                              runes, i)

dfaMatch_part002(chain, cache, runes) ==
    dfaLoop_part002(chain, cache, <<>>, runes, 1)

dfaPut_part002(rest, m) ==
    [res |-> m.res, dfaPool |-> IF m.put THEN poolPut(rest, m.cache) ELSE rest]

(* dfaMatch with its Get and Put on the pool: the (result, pool) pairs.    *)
dfaCall_part002(chain, pool, runes) ==
    {dfaPut_part002(gd.rest, dfaMatch_part002(chain, gd.item, runes)) :
        gd \in poolGet(pool, dfaNew_part002(chain))}

(* reverseMatch (lines 323-329).                                           *)
reverseMatch_part002(chain, pool, runes) ==
    dfaCall_part002(chain, pool, Reverse(runes))

(* Match of part_002 (lines 332-350) on g with its pool.                   *)
matchOutcomes_part002(g, pool, s) ==
    CASE g.matchPattern = equalPatten -> {[res |-> g.str = s, dfaPool |-> pool]}
      [] g.matchPattern = forwardPattern ->
           {[res |-> /\ Len(s) >= g.matchIndex
                     /\ Take(s, g.matchIndex) = Take(g.str, g.matchIndex),
             dfaPool |-> pool]}
      [] g.matchPattern = backwardPattern ->
           {[res |-> /\ Len(s) >= g.matchIndex
                     /\ Drop(s, Len(s) - g.matchIndex)
                          = Drop(g.str, Len(g.str) - g.matchIndex),
             dfaPool |-> pool]}
      [] g.matchPattern = partialPattern ->
           {[res |-> Contains(s, g.str), dfaPool |-> pool]}
      [] g.matchPattern = onePassPattern ->
           {[res |-> onePassMatch_part002(g.chain, RunesOf(s), 1, 1),
             dfaPool |-> pool]}
      [] g.matchPattern = globPattern -> dfaCall_part002(g.chain, pool, RunesOf(s))
      [] g.matchPattern = reverseGlobPattern ->
           reverseMatch_part002(g.chain, pool, RunesOf(s))

(***************************************************************************)
(* The program of part_002 as a state machine over the same variables:     *)
(* glob is the Glob of part_002's Compile, dfaPool its pool of dfaState    *)
(* graphs; the steper pools do not exist in it and stay empty.             *)
(***************************************************************************)
StringOp == "String"

MaxShapeLen == 3

ShapeChars == {<<LetterA>>, <<Asterisk>>, <<Question>>, <<Backslash>>}

(* Longer patterns: "*ab*", "**ab*", "a\**", "*a\**", "*a*\*", "a*b",      *)
(* "\[", U+FFFD.                                                           *)
ShapeExtra ==
    {<<Asterisk, LetterA, LetterB, Asterisk>>,
     <<Asterisk, Asterisk, LetterA, LetterB, Asterisk>>,
     <<LetterA, Backslash, Asterisk, Asterisk>>,
     <<Asterisk, LetterA, Backslash, Asterisk, Asterisk>>,
     <<Asterisk, LetterA, Asterisk, Backslash, Asterisk>>,
     <<LetterA, Asterisk, LetterB>>,
     <<Backslash, OpenSquare>>,
     ReplacementChar}

ShapePatterns ==
    {Flatten(cs) : cs \in SeqsUpTo(ShapeChars, MaxShapeLen)} \cup ShapeExtra

(* "", one character of a, b, '*', '?', '[', '\', an undecodable byte,     *)
(* and "aa", "ab", "ba", "a*", "*a", "\*", "\a", "a\*", "bab".             *)
ShapeInputs ==
    {<<>>, <<LetterA>>, <<LetterB>>, <<Asterisk>>, <<Question>>,
     <<OpenSquare>>, <<Backslash>>, InvalidByte,
     <<LetterA, LetterA>>, <<LetterA, LetterB>>, <<LetterB, LetterA>>,
     <<LetterA, Asterisk>>, <<Asterisk, LetterA>>, <<Backslash, Asterisk>>,
     <<Backslash, LetterA>>, <<LetterA, Backslash, Asterisk>>,
     <<LetterB, LetterA, LetterB>>}

InitShape ==
    /\ pattern \in ShapePatterns
    /\ glob = Compile_part002(pattern)
    /\ stringStepPool = <<>>
    /\ byteStepPool = <<>>
    /\ readerStepPool = <<>>
    /\ dfaPool = <<>>
    /\ backTrackPool = <<>>
    /\ nfaPool = <<>>
    /\ pc = "idle"
    /\ last = NoCall
    /\ conc = <<>>
    /\ firstOutcome = [s \in TrackedInputs |-> "none"]

(* Match(s string) of part_002.                                            *)
Match_part002(s) ==
    /\ pc = "idle"
    /\ ~glob.err
    /\ \E m \in matchOutcomes_part002(glob, dfaPool, s) :
         /\ dfaPool' = m.dfaPool
         /\ last' = [op |-> MatchOp, input |-> s, outcome |-> Returned(m.res)]
    /\ pc' = "returned"
    /\ UNCHANGED <<pattern, glob, backTrackPool, nfaPool, stringStepPool, byteStepPool, readerStepPool,
                   conc, firstOutcome>>

(* String() of part_002 (lines 352-355): text is what it returns.          *)
String_part002 ==
    /\ pc = "idle"
    /\ ~glob.err
    /\ last' = [op |-> StringOp, input |-> <<>>, outcome |-> "text",
                text |-> glob.str]
    /\ pc' = "returned"
    /\ UNCHANGED <<pattern, glob, backTrackPool, nfaPool, stringStepPool, byteStepPool, readerStepPool,
                   dfaPool, conc, firstOutcome>>

NextShape ==
    \/ \E s \in ShapeInputs : Match_part002(s)
    \/ String_part002
    \/ CallerContinues
    \/ poolCleanup

SpecShape == InitShape /\ [][NextShape]_vars

(***************************************************************************)
(* The newest program, src/unnamed/part_004.  A state carries strPrefix    *)
(* (bytesPrefix holds the same bytes): the first state of a run of rune    *)
(* states has the text of the run, every other state the empty text.       *)
(* step(index, state) of a stringStep or byteStep jumps to the next        *)
(* occurrence of state.strPrefix; the chain is matched by backtrack        *)
(* (Match, MatchString) or nfaMatch (MatchReader) when it has an asterisk. *)
(***************************************************************************)
State_part004(kind, r, re) ==
    [kind |-> kind, r |-> r, re |-> re, strPrefix |-> <<>>]

(* utf8.EncodeRune, as bytes.Buffer.WriteRune writes the rune.             *)
EncodeRune(r) ==
    IF r < 128 THEN <<r>>
    ELSE IF r < 2048 THEN <<192 + (r \div 64), 128 + (r % 64)>>
    ELSE IF r < 65536
    THEN <<224 + (r \div 4096), 128 + ((r \div 64) % 64), 128 + (r % 64)>>
    ELSE <<240 + (r \div 262144), 128 + ((r \div 4096) % 64),
           128 + ((r \div 64) % 64), 128 + (r % 64)>>

(* prefixAdd (lines 207-213): prefixState is the index in chain of the     *)
(* state that starts the run, or 0 for nil.                                *)
prefixAdd(chain, prefixState, prefixBuf) ==
    IF prefixState # 0
    THEN [chain EXCEPT ![prefixState].strPrefix = prefixBuf]
    ELSE chain

ChainFail_part004 == [err |-> TRUE, chain |-> <<>>, asterisks |-> 0]

(* The loop of Compile (lines 214-255) from rune index i on.               *)
RECURSIVE compileLoop_part004(_, _, _, _, _, _, _, _)
compileRegex_part004(pat, runes, i, chain, asterisks, end, c) ==
    IF c.err THEN ChainFail_part004
    ELSE compileLoop_part004(pat, runes, i + end + 1, FALSE,
                             Append(chain, State_part004(regexKind, 0, c.re)),
                             asterisks, 0, <<>>)

compileBracket_part004(pat, runes, i, chain, asterisks, end) ==
    IF end = 0 - 1 THEN ChainFail_part004
    ELSE compileRegex_part004(pat, runes, i, chain, asterisks, end,
                              regexpCompile(SubSeq(pat, i + 1, i + end + 1)))

(* The default case (lines 245-252) on rune r.                             *)
compileRune_part004(pat, runes, i, r, chain, asterisks, prefixState, prefixBuf) ==
    IF prefixState = 0
    THEN compileLoop_part004(pat, runes, i + 1, FALSE,
                             Append(chain, State_part004(runeKind, r, NoRegex)),
                             asterisks, Len(chain) + 1, EncodeRune(r))
    ELSE compileLoop_part004(pat, runes, i + 1, FALSE,
                             Append(chain, State_part004(runeKind, r, NoRegex)),
                             asterisks, prefixState, prefixBuf \o EncodeRune(r))

compileAt_part004(pat, runes, i, r, escape, chain, asterisks, prefixState, prefixBuf) ==
    IF ~escape /\ r = Backslash
    THEN compileLoop_part004(pat, runes, i + 1, TRUE, chain, asterisks,
                             prefixState, prefixBuf)
    ELSE IF ~escape /\ r = Asterisk
    THEN IF patternStateKind(chain) = asteriskKind
         THEN compileLoop_part004(pat, runes, i + 1, escape, chain, asterisks,
                                  prefixState, prefixBuf)
         ELSE compileLoop_part004(
                  pat, runes, i + 1, FALSE,
                  Append(prefixAdd(chain, prefixState, prefixBuf),
                         State_part004(asteriskKind, 0, NoRegex)),
                  asterisks + 1, 0, prefixBuf)
    ELSE IF ~escape /\ r = Question
    THEN compileLoop_part004(
             pat, runes, i + 1, FALSE,
             Append(prefixAdd(chain, prefixState, prefixBuf),
                    State_part004(questionKind, 0, NoRegex)),
             asterisks, 0, prefixBuf)
    ELSE IF ~escape /\ r = OpenSquare
    THEN compileBracket_part004(pat, runes, i,
                                prefixAdd(chain, prefixState, prefixBuf),
                                asterisks, indexCloseSquare(Drop(pat, i)))
    ELSE compileRune_part004(pat, runes, i, r, chain, asterisks, prefixState,
                             prefixBuf)

compileLoop_part004(pat, runes, i, escape, chain, asterisks, prefixState, prefixBuf) ==
    IF i >= Len(runes)
    THEN [err |-> FALSE,
          chain |-> Append(prefixAdd(chain, prefixState, prefixBuf),
                           State_part004(matchedKind, 0, NoRegex)),
          asterisks |-> asterisks]
    ELSE compileAt_part004(pat, runes, i, runes[i + 1], escape, chain,
                           asterisks, prefixState, prefixBuf)

(* Lines 259-265.                                                          *)
globOf_part004(pat, c) ==
    [err |-> c.err, str |-> pat, chain |-> c.chain, onePass |-> c.asterisks = 0]

Compile_part004(pat) ==
    globOf_part004(pat, compileLoop_part004(pat, RunesOf(pat), 0, FALSE, <<>>, 0,
                                            0, <<>>))

(* No state: the nil that the matchers pass to step.                       *)
NilState == State_part004("nil", 0, NoRegex)

(* The rune at byte index `index` of the text and the index after it.      *)
decodeAt(sp, index, d) == [r |-> d.r, next |-> index + d.size, steper |-> sp]

endOfInput(sp) == [r |-> RuneError, next |-> 0 - 1, steper |-> sp]

(* The branch of lines 43-51 (60-68): prefixIndex is what strings.Index    *)
(* (bytes.Index) found.                                                    *)
skipToPrefix(sp, index, prefixIndex) ==
    IF prefixIndex = 0 - 1 THEN endOfInput(sp)
    ELSE decodeAt(sp, index + prefixIndex,
                  DecodeRune(Drop(sp.data, index + prefixIndex)))

(* stringStep.step (lines 41-56).                                          *)
stringStep_step_part004(sp, index, state) ==
    IF Len(sp.data) > index
    THEN IF state # NilState /\ state.strPrefix # <<>>
         THEN skipToPrefix(sp, index, Index(Drop(sp.data, index), state.strPrefix))
         ELSE decodeAt(sp, index, DecodeRune(Drop(sp.data, index)))
    ELSE endOfInput(sp)

(* byteStep.step (lines 58-73).                                            *)
byteStep_step_part004(sp, index, state) ==
    IF Len(sp.data) > index
    THEN IF state # NilState /\ state.strPrefix # <<>>
         THEN skipToPrefix(sp, index, Index(Drop(sp.data, index), state.strPrefix))
         ELSE decodeAt(sp, index, DecodeRune(Drop(sp.data, index)))
    ELSE endOfInput(sp)

(* ReadRune of the strings.Reader behind a readerStep and the lines after  *)
(* it (78-84 with target the rune looked for, 87-91 with no target): d is  *)
(* the rune at the reader's position.                                      *)
RECURSIVE readerLoop_part004(_, _, _)
readerOn_part004(sp, target, looking, d) ==
    IF looking /\ d.r # target
    THEN readerLoop_part004([sp EXCEPT !.pos = sp.pos + d.size], target, looking)
    ELSE [r |-> d.r, next |-> d.size,
          steper |-> [sp EXCEPT !.pos = sp.pos + d.size]]

readerLoop_part004(sp, target, looking) ==
    IF sp.pos >= Len(sp.data) THEN endOfInput(sp)
    ELSE readerOn_part004(sp, target, looking, DecodeRune(Drop(sp.data, sp.pos)))

(* readerStep.step (lines 75-92).                                          *)
readerStep_step_part004(sp, state) ==
    readerLoop_part004(sp, state.r, state # NilState /\ state.kind = runeKind)

step_part004(sp, index, state) ==
    CASE sp.type = stringStepType -> stringStep_step_part004(sp, index, state)
      [] sp.type = byteStepType -> byteStep_step_part004(sp, index, state)
      [] sp.type = readerStepType -> readerStep_step_part004(sp, state)

(* onePassMatch of part_004 (lines 402-419) from state chain[k].           *)
RECURSIVE onePassMatch_part004(_, _, _, _)
onePassOn_part004(chain, k, s) ==
    IF s.r = RuneError THEN chain[k].kind = matchedKind
    ELSE IF stateMatch(chain[k], s.r)
    THEN onePassMatch_part004(chain, s.steper, k + 1, s.next)
    ELSE FALSE

onePassMatch_part004(chain, sp, k, index) ==
    onePassOn_part004(chain, k, step_part004(sp, index, NilState))

(* posStack: one slot, state 0 for nil.                                    *)
EmptyStack == [index |-> 0, state |-> 0]

(* backtrack (lines 358-400): the inner loop in state chain[k] at index,   *)
(* with the stack; a break leaves it for the pop of the outer loop.        *)
RECURSIVE backtrackLoop(_, _, _, _, _)
backtrackPop(chain, sp, stack) ==
    IF stack.state = 0 THEN FALSE
    ELSE backtrackLoop(chain, sp, stack.state, stack.index, EmptyStack)

(* Lines 374-396 on s, what step returned.                                  *)
backtrackOn(chain, k, stack, s) ==
    IF s.r = RuneError
    THEN IF \/ chain[k].kind = matchedKind
            \/ chain[k].kind = asteriskKind /\ chain[k + 1].kind = matchedKind
         THEN TRUE
         ELSE backtrackPop(chain, s.steper, stack)
    ELSE IF chain[k].kind = asteriskKind
    THEN IF chain[k + 1].kind = matchedKind THEN TRUE
         ELSE IF stateMatch(chain[k + 1], s.r)
         THEN backtrackLoop(chain, s.steper, k + 2, s.next,
                            [index |-> s.next, state |-> k])
         ELSE backtrackLoop(chain, s.steper, k, s.next, stack)
    ELSE IF stateMatch(chain[k], s.r)
    THEN backtrackLoop(chain, s.steper, k + 1, s.next, stack)
    ELSE backtrackPop(chain, s.steper, stack)

backtrackLoop(chain, sp, k, index, stack) ==
    backtrackOn(chain, k, stack,
                step_part004(sp, index,
                             IF chain[k].kind = asteriskKind THEN chain[k + 1]
                             ELSE NilState))

backtrack(chain, sp) == backtrackPop(chain, sp, [index |-> 0, state |-> 1])

(* nfaMatch (lines 306-355): the loop over list of lines 331-348 from its  *)
(* j-th state on; n is (list, asteriskNexts, matched) being built, with    *)
(* asteriskNexts 0 for nil and done set by the return of line 336.         *)
RECURSIVE nfaScan(_, _, _, _, _)
nfaScan(chain, list, j, r, n) ==
    IF j > Len(list) THEN n
    ELSE IF ~stateMatch(chain[list[j]], r) THEN nfaScan(chain, list, j + 1, r, n)
    ELSE IF chain[list[j] + 1].kind = asteriskKind
    THEN IF chain[list[j] + 2].kind = matchedKind
         THEN [n EXCEPT !.done = TRUE]
         ELSE [n EXCEPT !.asteriskNexts = list[j] + 2, !.list = <<>>]
    ELSE IF chain[list[j] + 1].kind = matchedKind
    THEN nfaScan(chain, list, j + 1, r, [n EXCEPT !.matched = TRUE])
    ELSE nfaScan(chain, list, j + 1, r, [n EXCEPT !.list = Append(@, list[j] + 1)])

RECURSIVE nfaLoop(_, _, _, _)
(* Lines 349-354 on n, what the loop over list left.                       *)
nfaAfterScan(chain, sp, index, n) ==
    IF n.done THEN TRUE
    ELSE IF n.asteriskNexts # 0
    THEN nfaLoop(chain, sp, index, [n EXCEPT !.list = Append(@, n.asteriskNexts)])
    ELSE IF ~n.matched /\ n.list = <<>> THEN FALSE
    ELSE nfaLoop(chain, sp, index, n)

(* Lines 324-348 on s, what step returned.                                  *)
nfaOn(chain, n, s) ==
    IF s.r = RuneError THEN n.matched
    ELSE nfaAfterScan(chain, s.steper, s.next,
                      nfaScan(chain, n.list, 1, s.r,
                              [n EXCEPT !.list = <<>>, !.matched = FALSE]))

nfaLoop(chain, sp, index, n) ==
    nfaOn(chain, n,
          step_part004(sp, index,
                       IF ~n.matched /\ n.asteriskNexts # 0 /\ n.list = <<>>
                       THEN chain[n.asteriskNexts] ELSE NilState))

(* Lines 306-317.                                                          *)
nfaStart(chain) ==
    IF chain[1].kind = asteriskKind
    THEN [list |-> <<2>>, asteriskNexts |-> 2,
          matched |-> chain[2].kind = matchedKind, done |-> FALSE]
    ELSE [list |-> <<1>>, asteriskNexts |-> 0,
          matched |-> chain[1].kind = matchedKind, done |-> FALSE]

(* "pattern is only one '*'" (line 296).                                   *)
onlyAsterisk(chain) ==
    chain[1].kind = asteriskKind /\ chain[2].kind = matchedKind

(* nfaMatch (lines 294-356); on a lone asterisk it returns before          *)
(* nfaPool.Get.                                                            *)
nfaMatch(chain, sp) ==
    IF onlyAsterisk(chain) THEN TRUE
    ELSE nfaLoop(chain, sp, 0, nfaStart(chain))

(***************************************************************************)
(* The program of part_004 as a state machine over the same variables:     *)
(* glob is the Glob of part_004's Compile; dfaPool does not exist in it    *)
(* and stays empty.  A pooled posStack or nfaState has been reset, so it   *)
(* is its type.                                                            *)
(***************************************************************************)
posStackType == "posStack"

nfaStateType == "nfaState"

MaxSkipPatLen == 3

MaxSkipInLen == 2

SkipPatChars == {<<LetterA>>, <<LetterB>>, <<Asterisk>>, <<Question>>}

(* "*ab*a", "a*b*a".                                                       *)
SkipPatterns ==
    {Flatten(cs) : cs \in SeqsUpTo(SkipPatChars, MaxSkipPatLen)}
    \cup {<<Asterisk, LetterA, LetterB, Asterisk, LetterA>>,
          <<LetterA, Asterisk, LetterB, Asterisk, LetterA>>}

(* Also an undecodable byte before or inside "ab", and "aba".              *)
SkipInputs ==
    {Flatten(cs) : cs \in SeqsUpTo(InChars, MaxSkipInLen)}
    \cup {InvalidByte \o <<LetterA, LetterB>>,
          <<LetterA>> \o InvalidByte \o <<LetterB>>,
          <<LetterA, LetterB, LetterA>>}

InitSkip ==
    /\ pattern \in SkipPatterns
    /\ glob = Compile_part004(pattern)
    /\ stringStepPool = <<>>
    /\ byteStepPool = <<>>
    /\ readerStepPool = <<>>
    /\ dfaPool = <<>>
    /\ backTrackPool = <<>>
    /\ nfaPool = <<>>
    /\ pc = "idle"
    /\ last = NoCall
    /\ conc = <<>>
    /\ firstOutcome = [s \in TrackedInputs |-> "none"]

(* The result of Match and MatchString on steper sp (lines 428-431,        *)
(* 441-444) and of MatchReader (454-457).                                  *)
backtrackResult(g, sp) ==
    IF g.onePass THEN onePassMatch_part004(g.chain, sp, 1, 0)
    ELSE backtrack(g.chain, sp)

nfaResult(g, sp) ==
    IF g.onePass THEN onePassMatch_part004(g.chain, sp, 1, 0)
    ELSE nfaMatch(g.chain, sp)

(* The outcome of a call whose Get handed out item: the assertion of the   *)
(* type, then the result.                                                  *)
outcome_part004(item, type, res) == IF item # type THEN Panic ELSE Returned(res)

(* A MatchString that walks the chain with g.startState itself instead of  *)
(* a local pointer: the Glob loses the state it has passed.                *)
MatchString_walkingStartState(s) ==
    /\ pc = "idle"
    /\ ~glob.err
    /\ \E gs \in poolGet(stringStepPool, stringStepType) :
         /\ stringStepPool' = poolPut(gs.rest, gs.item)
         /\ last' = [op |-> MatchStringOp, input |-> s,
                     outcome |-> outcome_part004(gs.item, stringStepType,
                                                 backtrackResult(glob, newStringStep(s)))]
    /\ \E gb \in poolGet(backTrackPool, posStackType) :
         backTrackPool' = IF glob.onePass THEN backTrackPool
                          ELSE poolPut(gb.rest, gb.item)
    /\ glob' = [glob EXCEPT !.chain = IF Len(@) > 1 /\ s # <<>> THEN Tail(@) ELSE @]
    /\ pc' = "returned"
    /\ UNCHANGED <<pattern, byteStepPool, readerStepPool, dfaPool, nfaPool,
                   conc, firstOutcome>>

(* MatchString of part_004 (lines 435-445).                                *)
MatchString_part004(s) ==
    /\ pc = "idle"
    /\ ~glob.err
    /\ \E gs \in poolGet(stringStepPool, stringStepType) :
         /\ stringStepPool' = poolPut(gs.rest, gs.item)
         /\ last' = [op |-> MatchStringOp, input |-> s,
                     outcome |-> outcome_part004(gs.item, stringStepType,
                                                 backtrackResult(glob, newStringStep(s)))]
    /\ \E gb \in poolGet(backTrackPool, posStackType) :
         backTrackPool' = IF glob.onePass THEN backTrackPool
                          ELSE poolPut(gb.rest, gb.item)
    /\ pc' = "returned"
    /\ UNCHANGED <<pattern, glob, byteStepPool, readerStepPool, dfaPool, nfaPool,
                   conc, firstOutcome>>

(* Match of part_004 (lines 422-432).                                      *)
Match_part004(bs) ==
    /\ pc = "idle"
    /\ ~glob.err
    /\ \E gs \in poolGet(byteStepPool, byteStepType) :
         /\ byteStepPool' = poolPut(gs.rest, gs.item)
         /\ last' = [op |-> MatchOp, input |-> bs,
                     outcome |-> outcome_part004(gs.item, byteStepType,
                                                 backtrackResult(glob, newByteStep(bs)))]
    /\ \E gb \in poolGet(backTrackPool, posStackType) :
         backTrackPool' = IF glob.onePass THEN backTrackPool
                          ELSE poolPut(gb.rest, gb.item)
    /\ pc' = "returned"
    /\ UNCHANGED <<pattern, glob, stringStepPool, readerStepPool, dfaPool,
                   nfaPool, conc, firstOutcome>>

(* MatchReader of part_004 (lines 448-458) on a strings.Reader over s.     *)
MatchReader_part004(s) ==
    /\ pc = "idle"
    /\ ~glob.err
    /\ \E gs \in poolGet(readerStepPool, readerStepType) :
         /\ readerStepPool' = poolPut(gs.rest, gs.item)
         /\ last' = [op |-> MatchReaderOp, input |-> s,
                     outcome |-> outcome_part004(gs.item, readerStepType,
                                                 nfaResult(glob, newReaderStep(s)))]
    /\ \E gn \in poolGet(nfaPool, nfaStateType) :
         nfaPool' = IF glob.onePass \/ onlyAsterisk(glob.chain) THEN nfaPool
                    ELSE poolPut(gn.rest, gn.item)
    /\ pc' = "returned"
    /\ UNCHANGED <<pattern, glob, stringStepPool, byteStepPool, dfaPool,
                   backTrackPool, conc, firstOutcome>>

NextSkip ==
    \/ \E s \in SkipInputs : MatchString_part004(s)
    \/ \E bs \in SkipInputs : Match_part004(bs)
    \/ \E s \in SkipInputs : MatchReader_part004(s)
    \/ CallerContinues
    \/ poolCleanup

SpecSkip == InitSkip /\ [][NextSkip]_vars

(***************************************************************************)
(* The characters of a pattern that a backslash escapes: escapes(runes,    *)
(* FALSE)[i] tells whether the i-th rune follows an unescaped backslash.   *)
(***************************************************************************)
RECURSIVE escapes(_, _)
escapes(runes, escape) ==
    IF runes = <<>> THEN <<>>
    ELSE <<escape>> \o escapes(Tail(runes), ~escape /\ Head(runes) = Backslash)

UnescapedAt(runes, flags, c) ==
    {i \in 1..Len(runes) : runes[i] = c /\ ~flags[i]}

(* The unescaped '[' of the runes that no unescaped ']' follows.           *)
unclosedIn(runes, flags) ==
    {i \in UnescapedAt(runes, flags, OpenSquare) :
        \A j \in UnescapedAt(runes, flags, CloseSquare) : j < i}

unclosedBrackets(p) == unclosedIn(RunesOf(p), escapes(RunesOf(p), FALSE))

hasBracketIn(runes, flags) == UnescapedAt(runes, flags, OpenSquare) # {}

hasBracket(p) == hasBracketIn(RunesOf(p), escapes(RunesOf(p), FALSE))

(***************************************************************************)
(* Several goroutines calling one Glob.  A call is cut where it touches    *)
(* the pools: the Get of its steper, the Get of a dfa start state, the     *)
(* match with the Put of the start state, and the deferred Put of the      *)
(* steper.  conc[g] is the call of goroutine g.                            *)
(***************************************************************************)
NumGoroutines == 2

Goroutines == 1..NumGoroutines

IdleCall ==
    [phase |-> "idle", op |-> "none", input |-> <<>>, dfa |-> dfaNew(glob.chain),
     outcome |-> "none"]

(* "*", "a*b" and "*a": a one-pass Glob and two with a dfaPool.            *)
ConcPatterns ==
    {<<Asterisk>>, <<LetterA, Asterisk, LetterB>>, <<Asterisk, LetterA>>}

ConcInputs == {<<>>, <<LetterA>>, <<LetterA, LetterB>>}

steperType(op) ==
    CASE op = MatchStringOp -> stringStepType
      [] op = MatchOp -> byteStepType
      [] op = MatchReaderOp -> readerStepType

steperPool(op) ==
    CASE op = MatchStringOp -> stringStepPool
      [] op = MatchOp -> byteStepPool
      [] op = MatchReaderOp -> readerStepPool

newSteper(op, s) ==
    CASE op = MatchStringOp -> newStringStep(s)
      [] op = MatchOp -> newByteStep(s)
      [] op = MatchReaderOp -> newReaderStep(s)

InitConc ==
    /\ pattern \in ConcPatterns
    /\ glob = Compile(pattern)
    /\ stringStepPool = <<>>
    /\ byteStepPool = <<>>
    /\ readerStepPool = <<>>
    /\ dfaPool = <<>>
    /\ backTrackPool = <<>>
    /\ nfaPool = <<>>
    /\ pc = "idle"
    /\ last = NoCall
    /\ conc = [g \in Goroutines |-> IdleCall]
    /\ firstOutcome = [s \in TrackedInputs |-> "none"]

(* The first lines of Match, MatchString and MatchReader: Get and the type *)
(* assertion (lines 324, 337, 350).                                        *)
goCall(g, op, s) ==
    /\ conc[g].phase = "idle"
    /\ ~glob.err
    /\ \E gs \in poolGet(steperPool(op), steperType(op)) :
         /\ stringStepPool' =
              IF op = MatchStringOp THEN gs.rest ELSE stringStepPool
         /\ byteStepPool' = IF op = MatchOp THEN gs.rest ELSE byteStepPool
         /\ readerStepPool' =
              IF op = MatchReaderOp THEN gs.rest ELSE readerStepPool
         /\ conc' = [conc EXCEPT ![g] =
              IF gs.item # steperType(op)
              THEN [IdleCall EXCEPT !.phase = "done", !.op = op, !.input = s,
                                    !.outcome = Panic]
              ELSE [IdleCall EXCEPT !.phase = "started", !.op = op,
                                    !.input = s]]
    /\ UNCHANGED <<pattern, glob, backTrackPool, nfaPool, dfaPool, pc, last, firstOutcome>>

(* onePassMatch for a Glob with a onePassState (lines 329-331).            *)
goOnePassMatch(g) ==
    /\ conc[g].phase = "started"
    /\ ~glob.useDFA
    /\ conc' = [conc EXCEPT
         ![g].phase = "matched",
         ![g].outcome =
            Returned(onePassMatch(glob, newSteper(conc[g].op, conc[g].input)).res)]
    /\ UNCHANGED <<pattern, glob, backTrackPool, nfaPool, stringStepPool, byteStepPool,
                   readerStepPool, dfaPool, pc, last, firstOutcome>>

(* The first line of dfaMatch: g.dfaPool.Get() (line 269).                 *)
goDfaGet(g) ==
    /\ conc[g].phase = "started"
    /\ glob.useDFA
    /\ \E gd \in poolGet(dfaPool, dfaNew(glob.chain)) :
         /\ dfaPool' = gd.rest
         /\ conc' = [conc EXCEPT ![g].phase = "holding", ![g].dfa = gd.item]
    /\ UNCHANGED <<pattern, glob, backTrackPool, nfaPool, stringStepPool, byteStepPool,
                   readerStepPool, pc, last, firstOutcome>>

(* The loops of dfaMatch on the start state the call holds, and the Put    *)
(* before its return (lines 272-319).                                      *)
goDfaMatch(g) ==
    /\ conc[g].phase = "holding"
    /\ \E m \in {dfaMatch(glob, conc[g].dfa,
                          newSteper(conc[g].op, conc[g].input))} :
         /\ dfaPool' = poolPut(dfaPool, m.cache)
         /\ conc' = [conc EXCEPT ![g].phase = "matched",
                                 ![g].dfa = dfaNew(glob.chain),
                                 ![g].outcome = Returned(m.res)]
    /\ UNCHANGED <<pattern, glob, backTrackPool, nfaPool, stringStepPool, byteStepPool,
                   readerStepPool, pc, last, firstOutcome>>

(* The deferred function: stringStepPool.Put(steper) (lines 326-328,       *)
(* 339-341, 352-354), and the return.                                      *)
goReturn(g) ==
    /\ conc[g].phase = "matched"
    /\ stringStepPool' = poolPut(stringStepPool, steperType(conc[g].op))
    /\ conc' = [conc EXCEPT ![g].phase = "done"]
    /\ UNCHANGED <<pattern, glob, backTrackPool, nfaPool, byteStepPool, readerStepPool, dfaPool,
                   pc, last, firstOutcome>>

(* The goroutine has read the outcome and is ready for its next call.      *)
goContinue(g) ==
    /\ conc[g].phase = "done"
    /\ conc' = [conc EXCEPT ![g] = IdleCall]
    /\ UNCHANGED <<pattern, glob, backTrackPool, nfaPool, stringStepPool, byteStepPool,
                   readerStepPool, dfaPool, pc, last, firstOutcome>>

NextConc ==
    \/ \E g \in Goroutines, op \in Ops, s \in ConcInputs : goCall(g, op, s)
    \/ \E g \in Goroutines : goOnePassMatch(g)
    \/ \E g \in Goroutines : goDfaGet(g)
    \/ \E g \in Goroutines : goDfaMatch(g)
    \/ \E g \in Goroutines : goReturn(g)
    \/ \E g \in Goroutines : goContinue(g)
    \/ poolCleanup

SpecConc == InitConc /\ [][NextConc]_vars

(***************************************************************************)
(* What the properties below compare the outcomes with.                    *)
(***************************************************************************)

(* Whether the runes rs split along the steps chain[k..]: an asterisk      *)
(* takes any number of runes, also none; every other step takes one rune   *)
(* that it matches; the matched state takes the end.                       *)
RECURSIVE RefMatch(_, _, _)
RefMatch(chain, k, rs) ==
    IF chain[k].kind = matchedKind THEN rs = <<>>
    ELSE IF chain[k].kind = asteriskKind
    THEN \E n \in 0..Len(rs) : RefMatch(chain, k + 1, Drop(rs, n))
    ELSE /\ rs # <<>>
         /\ stateMatch(chain[k], Head(rs))
         /\ RefMatch(chain, k + 1, Tail(rs))

(* Well-formed text without U+FFFD.                                        *)
IsPlainText(s) ==
    /\ ValidUTF8(s)
    /\ \A i \in 1..Len(RunesOf(s)) : RunesOf(s)[i] # RuneError

IsPrefix(p, s) == Len(p) <= Len(s) /\ Take(s, Len(p)) = p

IsSuffix(p, s) == Len(p) <= Len(s) /\ Drop(s, Len(s) - Len(p)) = p

(* Well-formed text in which no character is special to a pattern.         *)
IsLiteralText(l) ==
    /\ ValidUTF8(l)
    /\ \A i \in 1..Len(l) :
         l[i] \notin {Asterisk, Question, Backslash, OpenSquare}

(* The pattern with every run of unescaped asterisks replaced by one.      *)
RECURSIVE collapseRun(_, _, _)
collapseRun(p, escape, afterAsterisk) ==
    IF p = <<>> THEN <<>>
    ELSE IF ~escape /\ Head(p) = Backslash
    THEN <<Head(p)>> \o collapseRun(Tail(p), TRUE, FALSE)
    ELSE IF ~escape /\ Head(p) = Asterisk
    THEN (IF afterAsterisk THEN <<>> ELSE <<Head(p)>>)
         \o collapseRun(Tail(p), FALSE, TRUE)
    ELSE <<Head(p)>> \o collapseRun(Tail(p), FALSE, FALSE)

collapseAsterisks(p) == collapseRun(p, FALSE, FALSE)

(* The members of a pattern that is "[^", letters, "]"; else none.         *)
negatedMembers(p) ==
    IF /\ Len(p) >= 4
       /\ p[1] = OpenSquare
       /\ p[2] = Caret
       /\ p[Len(p)] = CloseSquare
       /\ \A i \in 3..(Len(p) - 1) : p[i] \in {LetterA, LetterB, LetterC}
    THEN {p[i] : i \in 3..(Len(p) - 1)}
    ELSE {}

(* p is made of letters a and of bracket expressions "[", an optional     *)
(* "^", one or more letters a, "]".  inside: p continues a bracket         *)
(* expression; member: that expression has a member already.               *)
RECURSIVE lettersAndBrackets(_, _, _)
lettersAndBrackets(p, inside, member) ==
    IF p = <<>> THEN ~inside
    ELSE IF Head(p) = LetterA THEN lettersAndBrackets(Tail(p), inside, inside)
    ELSE IF Head(p) = OpenSquare /\ ~inside
    THEN IF Len(p) >= 2 /\ p[2] = Caret
         THEN lettersAndBrackets(Drop(p, 2), TRUE, FALSE)
         ELSE lettersAndBrackets(Tail(p), TRUE, FALSE)
    ELSE IF Head(p) = CloseSquare /\ inside /\ member
    THEN lettersAndBrackets(Tail(p), FALSE, FALSE)
    ELSE FALSE

(* The outcome of operation op on input s as the only call ever made on    *)
(* Glob g: the pools are empty, so each Get calls New.                     *)
aloneOutcome(g, op, s) ==
    IF g.useDFA
    THEN Returned(dfaMatch(g, dfaNew(g.chain), newSteper(op, s)).res)
    ELSE Returned(onePassMatch(g, newSteper(op, s)).res)

(* The same for the Glob g of part_004.                                    *)
aloneOutcome_part004(g, op, s) ==
    IF op = MatchReaderOp THEN Returned(nfaResult(g, newSteper(op, s)))
    ELSE Returned(backtrackResult(g, newSteper(op, s)))

CallReturned == pc = "returned" /\ last.outcome # Panic

(***************************************************************************)
(* C1.  A MatchString call on well-formed text returns true exactly when   *)
(* the text can be split along the pattern's step chain: a literal takes   *)
(* itself, "?" one character, a bracket one character of its class, "*"    *)
(* zero or more characters.                                                *)
(***************************************************************************)
C1_MatchIsSplitAlongChain ==
    (CallReturned /\ last.op = MatchStringOp /\ IsPlainText(last.input))
        => last.outcome = Returned(RefMatch(glob.chain, 1, RunesOf(last.input)))

(***************************************************************************)
(* C2.  Whenever a call ends, each of MatchString, Match and MatchReader,  *)
(* made on the same input in the same state, ends with the same outcome.   *)
(***************************************************************************)
C2_SameOutcomeThroughAllOperations ==
    [][(pc = "idle" /\ pc' = "returned")
          => \A op \in Ops : outcomesOf(op, last'.input) = {last'.outcome}]_vars

(***************************************************************************)
(* C3.  Every call, after any sequence of calls, returns true or false;    *)
(* none panics.                                                            *)
(***************************************************************************)
C3_EveryCallReturnsABoolean ==
    pc = "returned" => last.outcome \in {ReturnsTrue, ReturnsFalse}

(***************************************************************************)
(* C4.  A call made while other goroutines call the same Glob ends with    *)
(* the outcome that the same call has when it is the only one.             *)
(***************************************************************************)
C4_ConcurrentCallsAsAlone ==
    \A g \in Goroutines :
        conc[g].phase = "done"
            => conc[g].outcome = aloneOutcome(glob, conc[g].op, conc[g].input)

(***************************************************************************)
(* C5.  A call that returns gives the result that the first call on the    *)
(* same input returned, whatever was matched in between.                   *)
(***************************************************************************)
C5_SameResultAsFirstCall ==
    (CallReturned /\ last.input \in TrackedInputs
       /\ firstOutcome[last.input] \in {ReturnsTrue, ReturnsFalse})
        => last.outcome = firstOutcome[last.input]

(***************************************************************************)
(* C6.  A call that returns gives the result that a Glob compiled from     *)
(* the pattern with its runs of "*" collapsed gives on the same input.     *)
(***************************************************************************)
C6_CollapsedPatternSameResult ==
    (CallReturned /\ ~Compile(collapseAsterisks(pattern)).err)
        => last.outcome = aloneOutcome(Compile(collapseAsterisks(pattern)),
                                       last.op, last.input)

(***************************************************************************)
(* C7.  With the pattern "*" every call, through each of the three         *)
(* operations and on every input, returns true.                            *)
(***************************************************************************)
C7_AsteriskMatchesEverything ==
    (pattern = <<Asterisk>> /\ pc = "returned") => last.outcome = ReturnsTrue

(***************************************************************************)
(* C8.  With the pattern "?" a call on well-formed text returns true       *)
(* exactly when the text is one character, whatever the character.         *)
(***************************************************************************)
C8_QuestionMatchesOneCharacter ==
    (pattern = <<Question>> /\ CallReturned /\ ValidUTF8(last.input))
        => (last.outcome = ReturnsTrue <=> Len(RunesOf(last.input)) = 1)

(***************************************************************************)
(* C9.  With a pattern that is a literal L followed by "*" a call on       *)
(* well-formed text returns true exactly when the text starts with L.      *)
(***************************************************************************)
C9_LiteralThenAsteriskIsPrefix ==
    (/\ CallReturned
     /\ ValidUTF8(last.input)
     /\ pattern # <<>>
     /\ Last(pattern) = Asterisk
     /\ IsLiteralText(Take(pattern, Len(pattern) - 1)))
        => (last.outcome = ReturnsTrue
              <=> IsPrefix(Take(pattern, Len(pattern) - 1), last.input))

(***************************************************************************)
(* C10.  With a pattern that is "*" followed by a literal L a call on      *)
(* well-formed text returns true exactly when the text ends with L.        *)
(***************************************************************************)
C10_AsteriskThenLiteralIsSuffix ==
    (/\ CallReturned
     /\ ValidUTF8(last.input)
     /\ pattern # <<>>
     /\ Head(pattern) = Asterisk
     /\ IsLiteralText(Tail(pattern)))
        => (last.outcome = ReturnsTrue <=> IsSuffix(Tail(pattern), last.input))

(***************************************************************************)
(* C14.  A pattern that is one bracket expression with a leading '^' and   *)
(* letters as members, such as "[^abc]", compiles, and a call returns      *)
(* true exactly when the input is one character that is not a member.      *)
(***************************************************************************)
C14_NegatedBracketMatchesOutsiders ==
    negatedMembers(pattern) # {}
        => /\ ~glob.err
           /\ CallReturned
                => (last.outcome = ReturnsTrue
                      <=> /\ Len(last.input) = 1
                          /\ last.input[1] \notin negatedMembers(pattern))

(***************************************************************************)
(* C15.  Compile returns an error for a pattern with an unescaped '['      *)
(* that no unescaped ']' follows.                                          *)
(***************************************************************************)
C15_UnclosedBracketIsAnError ==
    unclosedBrackets(pattern) # {} => glob.err

(***************************************************************************)
(* C16.  Compile succeeds on every pattern made of letters and of         *)
(* bracket expressions "[", an optional "^", letters, "]" (each '[' is     *)
(* closed and there is no named class), wherever the bracket expression    *)
(* stands: at the start, in the middle or at the end.                      *)
(***************************************************************************)
C16_ClosedBracketsCompile ==
    lettersAndBrackets(pattern, FALSE, FALSE) => ~glob.err

(***************************************************************************)
(* C18.  The empty pattern compiles, and every call on it, through each    *)
(* of the three operations, returns true on the empty input and false on   *)
(* every other well-formed input.                                          *)
(***************************************************************************)
C18_EmptyPatternMatchesEmptyInput ==
    pattern = <<>>
        => /\ ~glob.err
           /\ (pc = "returned" /\ ValidUTF8(last.input))
                => last.outcome = Returned(last.input = <<>>)

(* The names of the "[:name:]" tokens of p: the text between a "[:" and    *)
(* the next ":]".                                                          *)
namedTokens(p) ==
    {SubSeq(p, i + 2, i + 1 + Index(Drop(p, i + 1), <<Colon, CloseSquare>>)) :
        i \in {k \in 1..(Len(p) - 1) :
                 /\ p[k] = OpenSquare
                 /\ p[k + 1] = Colon
                 /\ Contains(Drop(p, k + 1), <<Colon, CloseSquare>>)}}

(* alnum, alpha, blank, cntrl, digit, graph, lower, print, punct, space,   *)
(* upper, xdigit.                                                          *)
TwelveNames ==
    {<<97, 108, 110, 117, 109>>,
     <<97, 108, 112, 104, 97>>,
     <<98, 108, 97, 110, 107>>,
     <<99, 110, 116, 114, 108>>,
     <<100, 105, 103, 105, 116>>,
     <<103, 114, 97, 112, 104>>,
     <<108, 111, 119, 101, 114>>,
     <<112, 114, 105, 110, 116>>,
     <<112, 117, 110, 99, 116>>,
     <<115, 112, 97, 99, 101>>,
     <<117, 112, 112, 101, 114>>,
     <<120, 100, 105, 103, 105, 116>>}

(***************************************************************************)
(* C17.  A pattern whose bracket expression has a "[:name:]" token with a  *)
(* name outside the twelve does not compile: Compile returns an error and  *)
(* no Glob.                                                                *)
(***************************************************************************)
C17_UnrecognizedNameIsAnError ==
    (\E n \in namedTokens(pattern) : n \notin TwelveNames) => glob.err

(* The pattern is "*", a non-empty literal L and "*".                       *)
StarLiteralStar(p) ==
    /\ Len(p) >= 3
    /\ Head(p) = Asterisk
    /\ Last(p) = Asterisk
    /\ IsLiteralText(SubSeq(p, 2, Len(p) - 1))

(***************************************************************************)
(* C11.  With a pattern "*" L "*", L a literal, every call on well-formed  *)
(* text returns true exactly when the text contains L.                     *)
(***************************************************************************)
C11_ContainsLiteral ==
    (StarLiteralStar(pattern) /\ pc = "returned" /\ ValidUTF8(last.input))
        => last.outcome
             = Returned(Contains(last.input, SubSeq(pattern, 2, Len(pattern) - 1)))

FastShapes == {equalPatten, forwardPattern, backwardPattern, partialPattern}

(* A chain (with its matched state) that has a '?', a bracket expression   *)
(* or an asterisk between two other states.                                *)
otherConstruct(chain) ==
    \E k \in 1..(Len(chain) - 1) :
        \/ chain[k].kind \in {questionKind, regexKind}
        \/ chain[k].kind = asteriskKind /\ 1 < k /\ k < Len(chain) - 1

(***************************************************************************)
(* C12.  When part_002's Compile gives the pattern the equal, forward,     *)
(* backward or partial shape, the chain of states of the pattern has no    *)
(* '?', no bracket expression and no asterisk in its middle, and every     *)
(* Match returns what the chain matcher (the glob branch of Compile and    *)
(* the matcher it selects, on a new pool) returns on the same input.       *)
(***************************************************************************)
C12_ShapeDetectionIsExact ==
    (~glob.err /\ glob.matchPattern \in FastShapes)
        => /\ ~compileGlob_part002(pattern).err
           /\ ~otherConstruct(compileGlob_part002(pattern).chain)
           /\ (pc = "returned" /\ last.op = MatchOp)
                => \A m \in matchOutcomes_part002(compileGlob_part002(pattern),
                                                  <<>>, last.input) :
                       last.outcome = Returned(m.res)

(***************************************************************************)
(* C13.  With the pattern backslash-x, x one of '*', '?', '[' and '\',     *)
(* Match returns true on the one-character input x and false on every      *)
(* other input.                                                            *)
(***************************************************************************)
C13_BackslashMakesLiteral ==
    \A x \in {Asterisk, Question, OpenSquare, Backslash} :
        pattern = <<Backslash, x>>
            => /\ ~glob.err
               /\ (pc = "returned" /\ last.op = MatchOp)
                    => last.outcome = Returned(last.input = <<x>>)

(***************************************************************************)
(* C19.  String() of the Glob of a pattern returns the pattern.            *)
(***************************************************************************)
C19_StringReturnsPattern ==
    (pc = "returned" /\ last.op = StringOp) => last.text = pattern

(* The offset of the first undecodable byte of s at or after offset i, or  *)
(* Len(s) when there is none.                                              *)
RECURSIVE firstUndecodable(_, _)
firstUndecodable(s, i) ==
    IF i >= Len(s) THEN Len(s)
    ELSE IF DecodeRune(Drop(s, i)).r = RuneError /\ DecodeRune(Drop(s, i)).size = 1
    THEN i
    ELSE firstUndecodable(s, i + DecodeRune(Drop(s, i)).size)

(***************************************************************************)
(* C20.  A call on an input with an undecodable byte ends by returning     *)
(* (it reports no error), and it returns what the same operation returns   *)
(* on the bytes before the first undecodable byte.                         *)
(***************************************************************************)
C20_MalformedInputEndsInput ==
    (pc = "returned" /\ ~ValidUTF8(last.input))
        => last.outcome
             = aloneOutcome_part004(
                   glob, last.op, Take(last.input, firstUndecodable(last.input, 0)))

(***************************************************************************)
(* What does hold of the calls that return, on the patterns and inputs of  *)
(* Spec and SpecConc (no pattern there is long enough for two dfaStates    *)
(* to share a backing array).                                              *)
(***************************************************************************)

(* A call that returns gives the result that each of the three operations *)
(* gives on the same input when made alone.                                *)
ReturnedAsAlone ==
    CallReturned
        => \A op \in Ops : last.outcome = aloneOutcome(glob, op, last.input)

(* The same for the goroutines of SpecConc.                                *)
ConcurrentReturnedAsAlone ==
    \A g \in Goroutines :
        (conc[g].phase = "done" /\ conc[g].outcome # Panic)
            => conc[g].outcome = aloneOutcome(glob, conc[g].op, conc[g].input)

(* Text without U+FFFD is split along the chain, but for the Globs whose   *)
(* chain is one asterisk and that Compile gave a dfaPool ("**", "*\").     *)
SplitButLoneAsteriskWithDfa ==
    (CallReturned /\ IsPlainText(last.input)
       /\ ~(glob.useDFA /\ Len(glob.chain) = 2))
        => last.outcome = Returned(RefMatch(glob.chain, 1, RunesOf(last.input)))

(* "*" returns true whenever it returns.                                   *)
AsteriskReturnsTrue ==
    (pattern = <<Asterisk>> /\ CallReturned) => last.outcome = ReturnsTrue

(* "?" on text without U+FFFD.                                             *)
QuestionOnPlainText ==
    (pattern = <<Question>> /\ CallReturned /\ IsPlainText(last.input))
        => (last.outcome = ReturnsTrue <=> Len(RunesOf(last.input)) = 1)

(* L followed by "*", for L and text without U+FFFD.                       *)
PrefixOnPlainText ==
    (/\ CallReturned
     /\ IsPlainText(last.input)
     /\ pattern # <<>>
     /\ Last(pattern) = Asterisk
     /\ IsLiteralText(Take(pattern, Len(pattern) - 1))
     /\ IsPlainText(Take(pattern, Len(pattern) - 1)))
        => (last.outcome = ReturnsTrue
              <=> IsPrefix(Take(pattern, Len(pattern) - 1), last.input))

(* "*" followed by L, for L and text without U+FFFD.                       *)
SuffixOnPlainText ==
    (/\ CallReturned
     /\ IsPlainText(last.input)
     /\ pattern # <<>>
     /\ Head(pattern) = Asterisk
     /\ IsLiteralText(Tail(pattern))
     /\ IsPlainText(Tail(pattern)))
        => (last.outcome = ReturnsTrue <=> IsSuffix(Tail(pattern), last.input))

(* The empty pattern on text without U+FFFD.                               *)
EmptyPatternOnPlainText ==
    (pattern = <<>> /\ CallReturned /\ IsPlainText(last.input))
        => last.outcome = Returned(last.input = <<>>)

(* An unclosed '[' is an error when every character of the pattern is one  *)
(* byte long.                                                              *)
UnclosedBracketOfOneByteCharacters ==
    (unclosedBrackets(pattern) # {} /\ \A i \in 1..Len(pattern) : pattern[i] < 128)
        => glob.err

(* A call on malformed input that returns gives what the operation gives   *)
(* on the bytes before the first undecodable byte.                         *)
MalformedInputReturnsAsPrefix ==
    (CallReturned /\ ~ValidUTF8(last.input))
        => last.outcome
             = aloneOutcome(glob, last.op,
                            Take(last.input, firstUndecodable(last.input, 0)))

(* "*" L "*" on text without U+FFFD, for L without U+FFFD.                 *)
ContainsOnPlainText ==
    (/\ StarLiteralStar(pattern)
     /\ IsPlainText(pattern)
     /\ CallReturned
     /\ IsPlainText(last.input))
        => last.outcome
             = Returned(Contains(last.input, SubSeq(pattern, 2, Len(pattern) - 1)))

(***************************************************************************)
(* What does hold of part_002 (SpecShape).                                 *)
(***************************************************************************)

(* Match on "*" L "*" returns whether the input contains L.                *)
PartialShapeContains ==
    (StarLiteralStar(pattern) /\ pc = "returned" /\ last.op = MatchOp)
        => last.outcome
             = Returned(Contains(last.input, SubSeq(pattern, 2, Len(pattern) - 1)))

(* On a pattern without a backslash and well-formed input the four shapes  *)
(* return what the chain matcher returns.                                  *)
ShapesWithoutBackslash ==
    (/\ ~glob.err
     /\ glob.matchPattern \in FastShapes
     /\ \A i \in 1..Len(pattern) : pattern[i] # Backslash
     /\ pc = "returned"
     /\ last.op = MatchOp
     /\ ValidUTF8(last.input))
        => \A m \in matchOutcomes_part002(compileGlob_part002(pattern),
                                          <<>>, last.input) :
               last.outcome = Returned(m.res)

(* String() returns the pattern but for the partial shape.                 *)
StringButPartial ==
    (pc = "returned" /\ last.op = StringOp /\ glob.matchPattern # partialPattern)
        => last.text = pattern

(***************************************************************************)
(* What does hold of named classes (SpecClass).                            *)
(***************************************************************************)

(* The bracket expression of a pattern of ClassPatterns.                   *)
bracketText(p) == IF Last(p) = CloseSquare THEN p ELSE Take(p, Len(p) - 1)

(* newBracket of src/bracket.go returns an error on every name outside     *)
(* the twelve.                                                             *)
NewBracketRejectsOtherNames ==
    (\E n \in namedTokens(pattern) : n \notin TwelveNames)
        => newBracket(bracketText(pattern)).err

(* Compile returns an error on every name that regexp/syntax does not      *)
(* know.                                                                   *)
CompileRejectsNamesUnknownToRegexp ==
    (\E n \in namedTokens(pattern) : ~posixGroup(n).known) => glob.err

(***************************************************************************)
(* What does hold of malformed input in part_004 (SpecSkip).               *)
(***************************************************************************)

(* MatchReader returns what it returns on the bytes before the first       *)
(* undecodable byte.                                                       *)
ReaderEndsAtMalformedInput ==
    (pc = "returned" /\ last.op = MatchReaderOp /\ ~ValidUTF8(last.input))
        => last.outcome
             = aloneOutcome_part004(
                   glob, last.op, Take(last.input, firstUndecodable(last.input, 0)))

(* No call of part_004 panics.                                             *)
NoPanic_part004 == pc = "returned" => last.outcome # Panic

(***************************************************************************)
(* The same program on text with characters of several bytes: patterns of  *)
(* up to MaxPatLen characters over a, "*", "?" and U+4E16 (three bytes),   *)
(* and inputs of up to MaxInLen characters over a and U+4E16.              *)
(***************************************************************************)
CharSekai == <<228, 184, 150>>

MultiBytePatChars ==
    {<<LetterA>>, <<Asterisk>>, <<Question>>, CharSekai}

MultiBytePatterns ==
    {Flatten(cs) : cs \in SeqsUpTo(MultiBytePatChars, MaxPatLen)}

MultiByteInputs ==
    {Flatten(cs) : cs \in SeqsUpTo({<<LetterA>>, CharSekai}, MaxInLen)}

InitMultiByte == InitOver(MultiBytePatterns)

NextMultiByte ==
    \/ \E s \in MultiByteInputs : MatchString(s)
    \/ \E bs \in MultiByteInputs : Match(bs)
    \/ \E s \in MultiByteInputs : MatchReader(s)
    \/ CallerContinues
    \/ poolCleanup

SpecMultiByte == InitMultiByte /\ [][NextMultiByte]_vars

(***************************************************************************)
(* C21.  A character of several bytes is one unit: every call of           *)
(* MatchString, Match and MatchReader on text with such characters         *)
(* returns whether the characters of the text split along the step chain,  *)
(* each "?" and each literal step taking one whole character.              *)
(***************************************************************************)
C21_MultiByteCharacterIsOneUnit ==
    (pc = "returned" /\ Len(RunesOf(last.input)) < Len(last.input))
        => last.outcome = Returned(RefMatch(glob.chain, 1, RunesOf(last.input)))

(* The calls that return do so but for a pattern that repeats an asterisk. *)
MultiByteReturnedAsSplit ==
    (/\ CallReturned
     /\ collapseAsterisks(pattern) = pattern)
        => last.outcome = Returned(RefMatch(glob.chain, 1, RunesOf(last.input)))

(***************************************************************************)
(* C22.  A pattern that is literal text followed by a lone backslash       *)
(* takes that backslash as a literal backslash: a call returns true        *)
(* exactly on the text followed by a backslash ("a\" exactly on "a\").     *)
(***************************************************************************)
literalThenBackslash(p) ==
    /\ p # <<>>
    /\ Last(p) = Backslash
    /\ IsLiteralText(Take(p, Len(p) - 1))
    /\ IsPlainText(p)

C22_TrailingBackslashIsLiteral ==
    (CallReturned /\ literalThenBackslash(pattern))
        => (last.outcome = ReturnsTrue <=> last.input = pattern)

(* Compile drops a trailing lone backslash: the chain is the chain of the  *)
(* pattern without it.                                                     *)
TrailingBackslashIsDropped ==
    (/\ ~glob.err
     /\ pattern # <<>>
     /\ Last(pattern) = Backslash
     /\ ~Last(escapes(RunesOf(pattern), FALSE)))
        => glob.chain = Compile(Take(pattern, Len(pattern) - 1)).chain

(***************************************************************************)
(* The same program on every pattern of up to MaxPatLen characters over    *)
(* a, "*", "?", "\", "[" and "]" and on the patterns of BracketPatterns,   *)
(* called on "" and "a": what Compile builds.                              *)
(***************************************************************************)
ChainPatChars ==
    {<<LetterA>>, <<Asterisk>>, <<Question>>, <<Backslash>>, <<OpenSquare>>,
     <<CloseSquare>>}

ChainPatterns ==
    {Flatten(cs) : cs \in SeqsUpTo(ChainPatChars, MaxPatLen)} \cup BracketPatterns

ChainInputs == {<<>>, <<LetterA>>}

InitChain == InitOver(ChainPatterns)

NextChain ==
    \/ \E s \in ChainInputs : MatchString(s)
    \/ \E bs \in ChainInputs : Match(bs)
    \/ \E s \in ChainInputs : MatchReader(s)
    \/ CallerContinues
    \/ poolCleanup

SpecChain == InitChain /\ [][NextChain]_vars

(* A chain ends in its only matched state and has no two asterisk states   *)
(* in a row.                                                               *)
chainWellFormed(chain) ==
    /\ chain # <<>>
    /\ \A k \in 1..Len(chain) : chain[k].kind = matchedKind <=> k = Len(chain)
    /\ \A k \in 1..(Len(chain) - 1) :
         ~(chain[k].kind = asteriskKind /\ chain[k + 1].kind = asteriskKind)

(***************************************************************************)
(* C23.  For every pattern that compiles, the chain of states that         *)
(* Compile builds (in src/glob.go and in src/unnamed/part_004) ends in     *)
(* exactly one matched state, its last element, and has no two adjacent    *)
(* asterisk states.                                                        *)
(***************************************************************************)
C23_ChainEndsInMatchedWithoutAsteriskRuns ==
    /\ ~glob.err => chainWellFormed(glob.chain)
    /\ ~Compile_part004(pattern).err
         => chainWellFormed(Compile_part004(pattern).chain)

(* C23: a pattern with two asterisks in a row and one more character has   *)
(* been compiled into a chain of three states, and called.                 *)
C23_Witness ==
    /\ ~glob.err
    /\ pc = "returned"
    /\ \E i \in 1..(Len(pattern) - 1) :
         pattern[i] = Asterisk /\ pattern[i + 1] = Asterisk
    /\ Len(glob.chain) = 3

(***************************************************************************)
(* C24.  No match operation changes the compiled pattern: every step of    *)
(* the program leaves the Glob as Compile built it, that is its pattern    *)
(* text, its strategy (onePass) and every state of its chain with its      *)
(* kind, rune, regexp, literal prefix and place in the chain.              *)
(***************************************************************************)
C24_MatchLeavesGlobUnchanged == [][glob' = glob /\ pattern' = pattern]_vars

(* C24: a call on a pattern with an asterisk and a literal prefix has      *)
(* returned true, its posStack is back in the pool, and the Glob is what   *)
(* Compile makes of the pattern.                                           *)
C24_Witness ==
    /\ pc = "returned"
    /\ last.outcome = ReturnsTrue
    /\ last.input # <<>>
    /\ ~glob.onePass
    /\ backTrackPool # <<>>
    /\ \E k \in 1..Len(glob.chain) : glob.chain[k].strPrefix # <<>>
    /\ glob = Compile_part004(pattern)

(***************************************************************************)
(* C25.  Pools are keyed by object type: stringStepPool holds only         *)
(* stringSteps, byteStepPool only byteSteps and readerStepPool only        *)
(* readerSteps, so that every Get yields the type its caller asserts.      *)
(***************************************************************************)
holdsOnly(pool, type) == \A i \in 1..Len(pool) : pool[i] = type

C25_PoolsHoldTheirOwnType ==
    /\ holdsOnly(stringStepPool, stringStepType)
    /\ holdsOnly(byteStepPool, byteStepType)
    /\ holdsOnly(readerStepPool, readerStepType)

(* Nothing is ever put into byteStepPool and readerStepPool.               *)
OnlyStringStepPoolIsFilled == byteStepPool = <<>> /\ readerStepPool = <<>>

(***************************************************************************)
(* C26.  Every pooled object that a match call takes is back in its pool   *)
(* when the call returns, on every return path.  For dfaMatch of           *)
(* src/unnamed/part_002: when a Match that goes through dfaMatch has       *)
(* returned, the dfaState it took is in dfaPool.                           *)
(***************************************************************************)
C26_TakenObjectsArePutBack ==
    (/\ pc = "returned"
     /\ last.op = MatchOp
     /\ glob.matchPattern \in {globPattern, reverseGlobPattern})
        => dfaPool # <<>>

(* In src/glob.go dfaMatch puts its dfaState back on every path.           *)
DfaStateIsPutBack == (CallReturned /\ glob.useDFA) => dfaPool # <<>>

(* In src/unnamed/part_004 the steper, the posStack and the nfaState are   *)
(* back in their pools when the call returns.                              *)
PutBack_part004 ==
    pc = "returned"
        => /\ last.op = MatchStringOp => stringStepPool # <<>>
           /\ last.op = MatchOp => byteStepPool # <<>>
           /\ last.op = MatchReaderOp => readerStepPool # <<>>
           /\ (last.op # MatchReaderOp /\ ~glob.onePass) => backTrackPool # <<>>
           /\ (last.op = MatchReaderOp /\ ~glob.onePass /\ ~onlyAsterisk(glob.chain))
                => nfaPool # <<>>

(***************************************************************************)
(* The pooled objects of src/unnamed/part_004 with their fields.  A        *)
(* steper holds a reference to the caller's input or none (input is <<s>>  *)
(* or <<>>); a posStack its index and state (0 for nil); an nfaState its   *)
(* list as a length len over the backing array arr (0 in a cell that       *)
(* holds no state) and asteriskNexts (0 for nil).                          *)
(***************************************************************************)
newStep(type) == [type |-> type, input |-> <<>>]

newPosStack == [type |-> posStackType, index |-> 0, state |-> 0]

newNfaState == [type |-> nfaStateType, arr |-> <<>>, len |-> 0, asteriskNexts |-> 0]

(* posStack.reset (lines 170-173).                                         *)
posStack_reset(p) == [p EXCEPT !.index = 0, !.state = 0]

(* nfaState.reset (lines 155-158): the list is cut to length 0 over the    *)
(* same backing array.                                                     *)
nfaState_reset(n) == [n EXCEPT !.len = 0, !.asteriskNexts = 0]

(* nfa.list = append(nfa.list, x): in place while the capacity allows,     *)
(* else into a grown array.                                                *)
nfaAppend(n, x) ==
    IF n.len < Len(n.arr)
    THEN [n EXCEPT !.arr[n.len + 1] = x, !.len = n.len + 1]
    ELSE [n EXCEPT !.arr = SubSeq(n.arr, 1, n.len) \o <<x>>
                             \o Zeros(growCap(Len(n.arr)) - n.len - 1),
                   !.len = n.len + 1]

(* The loop over list of lines 331-348 on the nfaState n with its array:   *)
(* list is the slice header taken at line 329, m what the loop has set     *)
(* (matched, done for the return of line 336).                             *)
RECURSIVE nfaArrScan(_, _, _, _, _, _)
nfaArrScan(chain, list, j, r, n, m) ==
    IF j > Len(list) THEN [n |-> n, m |-> m]
    ELSE IF ~stateMatch(chain[list[j]], r) THEN nfaArrScan(chain, list, j + 1, r, n, m)
    ELSE IF chain[list[j] + 1].kind = asteriskKind
    THEN IF chain[list[j] + 2].kind = matchedKind
         THEN [n |-> n, m |-> [m EXCEPT !.done = TRUE]]
         ELSE [n |-> [n EXCEPT !.asteriskNexts = list[j] + 2, !.len = 0], m |-> m]
    ELSE IF chain[list[j] + 1].kind = matchedKind
    THEN nfaArrScan(chain, list, j + 1, r, n, [m EXCEPT !.matched = TRUE])
    ELSE nfaArrScan(chain, list, j + 1, r, nfaAppend(n, list[j] + 1), m)

RECURSIVE nfaArrLoop(_, _, _, _, _)
(* Lines 349-354 on what the loop over list left.                          *)
nfaArrAfterScan(chain, sp, index, n, m) ==
    IF m.done THEN [res |-> TRUE, nfa |-> n, steper |-> sp]
    ELSE IF n.asteriskNexts # 0
    THEN nfaArrLoop(chain, sp, index, nfaAppend(n, n.asteriskNexts), m.matched)
    ELSE IF ~m.matched /\ n.len = 0 THEN [res |-> FALSE, nfa |-> n, steper |-> sp]
    ELSE nfaArrLoop(chain, sp, index, n, m.matched)

nfaArrScanned(chain, sp, index, sc) == nfaArrAfterScan(chain, sp, index, sc.n, sc.m)

(* Lines 324-348 on s, what step returned.                                 *)
nfaArrOn(chain, n, matched, s) ==
    IF s.r = RuneError THEN [res |-> matched, nfa |-> n, steper |-> s.steper]
    ELSE nfaArrScanned(chain, s.steper, s.next,
                       nfaArrScan(chain, SubSeq(n.arr, 1, n.len), 1, s.r,
                                  [n EXCEPT !.len = 0],
                                  [matched |-> FALSE, done |-> FALSE]))

nfaArrLoop(chain, sp, index, n, matched) ==
    nfaArrOn(chain, n, matched,
             step_part004(sp, index,
                          IF ~matched /\ n.asteriskNexts # 0 /\ n.len = 0
                          THEN chain[n.asteriskNexts] ELSE NilState))

(* Lines 306-311 on the nfaState that Get handed out.                      *)
nfaArrStart(chain, n) ==
    IF chain[1].kind = asteriskKind
    THEN nfaAppend([n EXCEPT !.asteriskNexts = 2], 2)
    ELSE nfaAppend(n, 1)

nfaArrFrom(chain, sp, n) ==
    nfaArrLoop(chain, sp, 0, n, chain[n.arr[1]].kind = matchedKind)

(* nfaMatch (lines 300-356) on the nfaState n from the pool: the result,   *)
(* n as the call leaves it, and the steper after the call.                 *)
nfaMatchOn(chain, sp, n) == nfaArrFrom(chain, sp, nfaArrStart(chain, n))

(***************************************************************************)
(* The program of part_004 with these objects in the pools, on patterns    *)
(* of up to MaxPooledPatLen characters over a, b, "*" and "?" and on       *)
(* "*a*b", called on inputs of up to MaxPooledInLen characters over a, b.  *)
(***************************************************************************)
MaxPooledPatLen == 2

MaxPooledInLen == 2

PooledPatterns ==
    {Flatten(cs) : cs \in SeqsUpTo(SkipPatChars, MaxPooledPatLen)}
    \cup {<<Asterisk, LetterA, Asterisk, LetterB>>}

PooledInputs ==
    {Flatten(cs) : cs \in SeqsUpTo({<<LetterA>>, <<LetterB>>}, MaxPooledInLen)}

InitPooled ==
    /\ pattern \in PooledPatterns
    /\ glob = Compile_part004(pattern)
    /\ stringStepPool = <<>>
    /\ byteStepPool = <<>>
    /\ readerStepPool = <<>>
    /\ dfaPool = <<>>
    /\ backTrackPool = <<>>
    /\ nfaPool = <<>>
    /\ pc = "idle"
    /\ last = NoCall
    /\ conc = <<>>
    /\ firstOutcome = [s \in TrackedInputs |-> "none"]

(* backtrack's Get and deferred reset and Put (lines 359-363).             *)
backTrackPoolAfter ==
    IF glob.onePass THEN {backTrackPool}
    ELSE {poolPut(gb.rest, posStack_reset(gb.item)) :
            gb \in poolGet(backTrackPool, newPosStack)}

(* MatchString (lines 435-445): steper.str = s, and the deferred Put.      *)
MatchString_pooled(s) ==
    /\ pc = "idle"
    /\ ~glob.err
    /\ \E gs \in poolGet(stringStepPool, newStep(stringStepType)) :
         /\ stringStepPool' = poolPut(gs.rest, [gs.item EXCEPT !.input = <<s>>])
         /\ last' = [op |-> MatchStringOp, input |-> s,
                     outcome |-> outcome_part004(gs.item.type, stringStepType,
                                                 backtrackResult(glob, newStringStep(s)))]
    /\ backTrackPool' \in backTrackPoolAfter
    /\ pc' = "returned"
    /\ UNCHANGED <<pattern, glob, byteStepPool, readerStepPool, dfaPool, nfaPool,
                   conc, firstOutcome>>

(* Match (lines 422-432): steper.bs = bs, and the deferred Put.            *)
Match_pooled(bs) ==
    /\ pc = "idle"
    /\ ~glob.err
    /\ \E gs \in poolGet(byteStepPool, newStep(byteStepType)) :
         /\ byteStepPool' = poolPut(gs.rest, [gs.item EXCEPT !.input = <<bs>>])
         /\ last' = [op |-> MatchOp, input |-> bs,
                     outcome |-> outcome_part004(gs.item.type, byteStepType,
                                                 backtrackResult(glob, newByteStep(bs)))]
    /\ backTrackPool' \in backTrackPoolAfter
    /\ pc' = "returned"
    /\ UNCHANGED <<pattern, glob, stringStepPool, readerStepPool, dfaPool,
                   nfaPool, conc, firstOutcome>>

(* The result of MatchReader and the nfaPool after it: onePassMatch, the   *)
(* return of line 297 before the Get, or nfaMatch with its Get and its     *)
(* deferred reset and Put (lines 300-304).                                 *)
readerOutcomes(s) ==
    IF glob.onePass \/ onlyAsterisk(glob.chain)
    THEN {[res |-> nfaResult(glob, newReaderStep(s)), nfaPool |-> nfaPool]}
    ELSE {[res |-> nfaMatchOn(glob.chain, newReaderStep(s), gn.item).res,
           nfaPool |-> poolPut(gn.rest,
                               nfaState_reset(nfaMatchOn(glob.chain, newReaderStep(s),
                                                         gn.item).nfa))] :
            gn \in poolGet(nfaPool, newNfaState)}

(* MatchReader (lines 448-458) on a strings.Reader over s:                 *)
(* steper.reader = reader, and the deferred Put.                           *)
MatchReader_pooled(s) ==
    /\ pc = "idle"
    /\ ~glob.err
    /\ \E gs \in poolGet(readerStepPool, newStep(readerStepType)) :
         /\ readerStepPool' = poolPut(gs.rest, [gs.item EXCEPT !.input = <<s>>])
         /\ \E m \in readerOutcomes(s) :
              /\ nfaPool' = m.nfaPool
              /\ last' = [op |-> MatchReaderOp, input |-> s,
                          outcome |-> outcome_part004(gs.item.type, readerStepType,
                                                      m.res)]
    /\ pc' = "returned"
    /\ UNCHANGED <<pattern, glob, stringStepPool, byteStepPool, dfaPool,
                   backTrackPool, conc, firstOutcome>>

NextPooled ==
    \/ \E s \in PooledInputs : MatchString_pooled(s)
    \/ \E bs \in PooledInputs : Match_pooled(bs)
    \/ \E s \in PooledInputs : MatchReader_pooled(s)
    \/ CallerContinues
    \/ poolCleanup

SpecPooled == InitPooled /\ [][NextPooled]_vars

(***************************************************************************)
(* C27.  A pooled object is fully reset when it goes back to its pool: no  *)
(* pooled steper holds a reference to a caller's input, and no pooled      *)
(* posStack or nfaState a reference to a state of the chain, also not in   *)
(* the cells of the backing array past the length of its list.             *)
(***************************************************************************)
(* The empty string and the empty byte slice refer to no memory of the     *)
(* caller; a reader is a reference whatever it reads.                      *)
holdsNoInput(pool) ==
    \A i \in 1..Len(pool) :
        \/ pool[i].input = <<>>
        \/ pool[i].type # readerStepType /\ pool[i].input = <<(<<>>)>>

holdsNoState(n) ==
    /\ n.asteriskNexts = 0
    /\ n.len = 0
    /\ \A i \in 1..Len(n.arr) : n.arr[i] = 0

C27_PooledObjectsAreReset ==
    /\ holdsNoInput(stringStepPool)
    /\ holdsNoInput(byteStepPool)
    /\ holdsNoInput(readerStepPool)
    /\ \A i \in 1..Len(backTrackPool) :
         backTrackPool[i].index = 0 /\ backTrackPool[i].state = 0
    /\ \A i \in 1..Len(nfaPool) : holdsNoState(nfaPool[i])

(* What the reset functions do clear: the posStack, and the length and     *)
(* asteriskNexts of the nfaState.                                          *)
ResetClearsTheFields ==
    /\ \A i \in 1..Len(backTrackPool) : backTrackPool[i] = newPosStack
    /\ \A i \in 1..Len(nfaPool) :
         nfaPool[i].len = 0 /\ nfaPool[i].asteriskNexts = 0

(* Every pooled steper holds the input of the call that put it, and every  *)
(* pooled nfaState a state in the first cell of its backing array.         *)
PooledObjectsKeepReferences ==
    /\ \A i \in 1..Len(stringStepPool) : Len(stringStepPool[i].input) = 1
    /\ \A i \in 1..Len(byteStepPool) : Len(byteStepPool[i].input) = 1
    /\ \A i \in 1..Len(readerStepPool) : Len(readerStepPool[i].input) = 1
    /\ \A i \in 1..Len(nfaPool) :
         nfaPool[i].arr # <<>> /\ nfaPool[i].arr[1] # 0

(* The walk with the backing array returns what nfaMatch returns.          *)
NfaMatchOnAsNfaMatch ==
    (pc = "returned" /\ last.op = MatchReaderOp)
        => last.outcome = Returned(nfaResult(glob, newReaderStep(last.input)))

(***************************************************************************)
(* A fresh computation of the transition of a dfaState with the states     *)
(* list and asteriskNexts on rune r (lines 282-301), asteriskNexts being   *)
(* a slice of its own that shares its backing array with nothing.          *)
(***************************************************************************)
freshTransition(chain, list, asteriskNexts, r) ==
    dfaScan(chain, list \o asteriskNexts, 1, r,
            [arrs |-> EmptyMap, own |-> TRUE, id |-> NilArr,
             cells |-> asteriskNexts, len |-> Len(asteriskNexts),
             nlist |-> <<>>, matched |-> FALSE])

(* The entry next[r] of dfaState p of the graph holds the dfaState that    *)
(* the fresh computation yields.                                           *)
entrySound(chain, cache, p, r, f) ==
    /\ ~f.matched
    /\ cache.st[cache.st[p].next[r]].list = f.nlist
    /\ sliceElems(cache.arr, cache.st[cache.st[p].next[r]].arr,
                  cache.st[cache.st[p].next[r]].len)
         = SubSeq(f.cells, 1, f.len)

cacheSound(chain, cache) ==
    \A p \in DOMAIN cache.st : \A r \in DOMAIN cache.st[p].next :
        entrySound(chain, cache, p, r,
                   freshTransition(chain, cache.st[p].list,
                                   sliceElems(cache.arr, cache.st[p].arr,
                                              cache.st[p].len),
                                   r))

(***************************************************************************)
(* C28.  The transition cache of dfaMatch is sound: in every dfaState      *)
(* graph of dfaPool, every entry next[r] = D of a dfaState has the list    *)
(* and the asteriskNexts that a fresh computation of the transition of     *)
(* that dfaState on r yields.                                              *)
(***************************************************************************)
C28_TransitionCacheIsSound ==
    \A i \in 1..Len(dfaPool) : cacheSound(glob.chain, dfaPool[i])

(***************************************************************************)
(* The same program on "*a*b" and "*a*b*c", called on "ab" and on the      *)
(* inputs of up to MaxLiveLen times a: what dfaMatch holds in its          *)
(* dfaStates.                                                              *)
(***************************************************************************)
MaxLiveLen == 5

LivePatterns ==
    {<<Asterisk, LetterA, Asterisk, LetterB>>,
     <<Asterisk, LetterA, Asterisk, LetterB, Asterisk, LetterC>>}

LiveInputs ==
    {[k \in 1..n |-> LetterA] : n \in 0..MaxLiveLen} \cup {<<LetterA, LetterB>>}

InitLive == InitOver(LivePatterns)

NextLive ==
    \/ \E s \in LiveInputs : MatchString(s)
    \/ \E bs \in LiveInputs : Match(bs)
    \/ \E s \in LiveInputs : MatchReader(s)
    \/ CallerContinues
    \/ poolCleanup

SpecLive == InitLive /\ [][NextLive]_vars

(***************************************************************************)
(* C29.  The live set is a set bounded by the pattern: every dfaState      *)
(* that worklist matching has built holds, in list and asteriskNexts       *)
(* together, at most as many entries as the chain has states, and no       *)
(* state twice.                                                            *)
(***************************************************************************)
liveEntries(cache, p) ==
    cache.st[p].list \o sliceElems(cache.arr, cache.st[p].arr, cache.st[p].len)

isBoundedSet(entries, bound) ==
    /\ Len(entries) <= bound
    /\ \A i, j \in 1..Len(entries) : entries[i] = entries[j] => i = j

C29_LiveSetIsABoundedSet ==
    \A i \in 1..Len(dfaPool) : \A p \in DOMAIN dfaPool[i].st :
        isBoundedSet(liveEntries(dfaPool[i], p), Len(glob.chain))

(* The bound alone: no dfaState holds more entries than the chain has      *)
(* states.                                                                 *)
LiveSetWithinChainLength ==
    \A i \in 1..Len(dfaPool) : \A p \in DOMAIN dfaPool[i].st :
        Len(liveEntries(dfaPool[i], p)) <= Len(glob.chain)

(* Every further a of the input adds one entry: the dfaState reached by n  *)
(* times a holds n + 1 entries.                                            *)
LiveSetGrowsWithInput ==
    \A i \in 1..Len(dfaPool) : \A p \in DOMAIN dfaPool[i].st :
        (\A k \in 1..Len(p) : p[k] = LetterA)
            => Len(liveEntries(dfaPool[i], p)) = Len(p) + 1

(***************************************************************************)
(* The live set of general matching: the positions of the chain from       *)
(* position k that are consistent with the runes rs, all of them           *)
(* consumed.  An asterisk keeps its position and gives the next one; any   *)
(* other state gives the next position on a rune that it matches.          *)
(***************************************************************************)
RECURSIVE live(_, _, _)
live(chain, k, rs) ==
    IF chain[k].kind = matchedKind THEN (IF rs = <<>> THEN {k} ELSE {})
    ELSE IF chain[k].kind = asteriskKind
    THEN (IF rs = <<>> THEN {k} ELSE live(chain, k, Tail(rs)))
         \cup live(chain, k + 1, rs)
    ELSE IF rs = <<>> THEN {k}
    ELSE IF stateMatch(chain[k], Head(rs)) THEN live(chain, k + 1, Tail(rs))
    ELSE {}

(* The number of runes after which the machine is Failed (the live set is  *)
(* empty), and after which it is Matched (a live position is the asterisk  *)
(* before the matched state); 0 when it never is.                          *)
firstOf(js) == IF js = {} THEN 0 ELSE CHOOSE j \in js : \A i \in js : j <= i

failedAfter(chain, rs) ==
    firstOf({j \in 1..Len(rs) : live(chain, 1, Take(rs, j)) = {}})

matchedAfter(chain, rs) ==
    firstOf({j \in 1..Len(rs) :
               \E k \in live(chain, 1, Take(rs, j)) :
                   chain[k].kind = asteriskKind /\ chain[k + 1].kind = matchedKind})

(* The bytes of the first n characters of s.                               *)
RECURSIVE bytesOf(_, _)
bytesOf(s, n) ==
    IF n = 0 \/ s = <<>> THEN 0
    ELSE DecodeRune(s).size + bytesOf(Drop(s, DecodeRune(s).size), n - 1)

(* dfaMatch on a strings.Reader over s, with a dfaState from New.          *)
readerAlone(g, s) == dfaMatch(g, dfaNew(g.chain), newReaderStep(s))

(* What a three-state machine Scanning / Matched / Failed does on the      *)
(* runes rs of input s: outcome is what the call returned, pos the         *)
(* position of the reader after it.                                        *)
threeStates(chain, s, rs, outcome, pos) ==
    /\ failedAfter(chain, rs) > 0
         => outcome = ReturnsFalse /\ pos = bytesOf(s, failedAfter(chain, rs))
    /\ matchedAfter(chain, rs) > 0 => outcome = ReturnsTrue
    /\ (failedAfter(chain, rs) = 0 /\ matchedAfter(chain, rs) = 0)
         => (outcome = ReturnsTrue <=> Len(chain) \in live(chain, 1, rs))

(***************************************************************************)
(* C30.  General matching is a three-state machine: a MatchReader call     *)
(* through dfaMatch returns false as soon as the live set is empty,        *)
(* having read no character past the one that emptied it; it returns true  *)
(* once Matched; and at the end of the input in Scanning it returns true   *)
(* exactly when the matched state is live.                                 *)
(***************************************************************************)
C30_GeneralMatchingIsThreeStates ==
    (/\ CallReturned
     /\ last.op = MatchReaderOp
     /\ glob.useDFA
     /\ IsPlainText(last.input))
        => threeStates(glob.chain, last.input, RunesOf(last.input), last.outcome,
                       readerAlone(glob, last.input).steper.pos)

(* The results are those of the three-state machine but for a chain that   *)
(* is an asterisk and the matched state; the reader's position is left     *)
(* aside.                                                                  *)
ThreeStatesButPosition ==
    (/\ CallReturned
     /\ glob.useDFA
     /\ ~onlyAsterisk(glob.chain)
     /\ IsPlainText(last.input))
        => threeStates(glob.chain, last.input, RunesOf(last.input), last.outcome,
                       bytesOf(last.input, failedAfter(glob.chain, RunesOf(last.input))))

(* After Failed, dfaMatch has read one more character when there is one.   *)
FailedReadsOneMore ==
    (/\ CallReturned
     /\ last.op = MatchReaderOp
     /\ glob.useDFA
     /\ IsPlainText(last.input)
     /\ failedAfter(glob.chain, RunesOf(last.input)) > 0)
        => readerAlone(glob, last.input).steper.pos
             = bytesOf(last.input, failedAfter(glob.chain, RunesOf(last.input)) + 1)

(* In src/unnamed/part_004 MatchReader through nfaMatch is the            *)
(* three-state machine, the position of the reader included.               *)
ThreeStates_part004 ==
    (/\ pc = "returned"
     /\ last.op = MatchReaderOp
     /\ ~glob.onePass
     /\ ~onlyAsterisk(glob.chain)
     /\ IsPlainText(last.input))
        => threeStates(glob.chain, last.input, RunesOf(last.input), last.outcome,
                       nfaMatchOn(glob.chain, newReaderStep(last.input),
                                  newNfaState).steper.pos)

(***************************************************************************)
(* The numbers of characters of rs after which the asterisk before the     *)
(* matched state is reached (0 when the chain starts with it).             *)
(***************************************************************************)
wildcardReached(chain, rs) ==
    {j \in 0..Len(rs) :
        \E k \in live(chain, 1, Take(rs, j)) :
            chain[k].kind = asteriskKind /\ chain[k + 1].kind = matchedKind}

(* A match of Glob g on a strings.Reader over s, with a dfaState from New: *)
(* the result and the steper after the call.                               *)
readerAfter(g, s) ==
    IF g.useDFA THEN readerAlone(g, s) ELSE onePassMatch(g, newReaderStep(s))

(***************************************************************************)
(* C31.  For a pattern whose last step before the matched state is an      *)
(* asterisk, a call returns true as soon as that asterisk is reached,      *)
(* whatever remains of the input: a MatchReader call returns true and has  *)
(* read the characters that lead to the asterisk and none after them.      *)
(***************************************************************************)
C31_TrailingWildcardReturnsAtOnce ==
    (/\ CallReturned
     /\ last.op = MatchReaderOp
     /\ IsPlainText(last.input)
     /\ wildcardReached(glob.chain, RunesOf(last.input)) # {})
        => /\ last.outcome = ReturnsTrue
           /\ readerAfter(glob, last.input).steper.pos
                = bytesOf(last.input,
                          firstOf(wildcardReached(glob.chain, RunesOf(last.input))))

(* The result is true, but for the chain that is an asterisk and the       *)
(* matched state under dfaMatch.                                           *)
TrailingWildcardReturnsTrue ==
    (/\ CallReturned
     /\ IsPlainText(last.input)
     /\ ~(glob.useDFA /\ onlyAsterisk(glob.chain))
     /\ wildcardReached(glob.chain, RunesOf(last.input)) # {})
        => last.outcome = ReturnsTrue

(* onePassMatch has read one more character, when there is one, and        *)
(* dfaMatch none.                                                          *)
TrailingWildcardReads ==
    (/\ CallReturned
     /\ last.op = MatchReaderOp
     /\ IsPlainText(last.input)
     /\ ~(glob.useDFA /\ onlyAsterisk(glob.chain))
     /\ wildcardReached(glob.chain, RunesOf(last.input)) # {})
        => readerAfter(glob, last.input).steper.pos
             = bytesOf(last.input,
                       firstOf(wildcardReached(glob.chain, RunesOf(last.input)))
                         + (IF glob.useDFA THEN 0 ELSE 1))

(* In src/unnamed/part_004 MatchReader through nfaMatch returns true with  *)
(* no character read after the asterisk is reached.                        *)
TrailingWildcard_part004 ==
    (/\ pc = "returned"
     /\ last.op = MatchReaderOp
     /\ ~glob.onePass
     /\ ~onlyAsterisk(glob.chain)
     /\ IsPlainText(last.input)
     /\ wildcardReached(glob.chain, RunesOf(last.input)) # {})
        => /\ last.outcome = ReturnsTrue
           /\ nfaMatchOn(glob.chain, newReaderStep(last.input), newNfaState).steper.pos
                = bytesOf(last.input,
                          firstOf(wildcardReached(glob.chain, RunesOf(last.input))))

(***************************************************************************)
(* C32.  Whenever Compile selects the one-pass matcher, every asterisk     *)
(* state of the chain is immediately followed by the matched state, and a  *)
(* call returns what the worklist matcher, dfaMatch, returns for the same  *)
(* chain on the same input.                                                *)
(***************************************************************************)
asterisksAreLast(chain) ==
    \A k \in 1..(Len(chain) - 1) :
        chain[k].kind = asteriskKind => chain[k + 1].kind = matchedKind

worklistOutcome(g, op, s) ==
    Returned(dfaMatch(g, dfaNew(g.chain), newSteper(op, s)).res)

C32_OnePassAsWorklist ==
    (~glob.err /\ ~glob.useDFA)
        => /\ asterisksAreLast(glob.chain)
           /\ CallReturned
                => last.outcome = worklistOutcome(glob, last.op, last.input)

(* The chains of the one-pass matcher have their asterisk last.            *)
OnePassAsterisksAreLast ==
    (~glob.err /\ ~glob.useDFA) => asterisksAreLast(glob.chain)

(* The one-pass matcher returns what dfaMatch returns, but for the         *)
(* pattern "*".                                                            *)
OnePassAsWorklistButAsterisk ==
    (~glob.err /\ ~glob.useDFA /\ ~onlyAsterisk(glob.chain) /\ CallReturned)
        => last.outcome = worklistOutcome(glob, last.op, last.input)


(***************************************************************************)
(* C33.  For every compiled pattern with one or more wildcards and every   *)
(* input, backtrack of part_004 returns what nfaMatch returns on the same  *)
(* character sequence.                                                     *)
(***************************************************************************)
hasAsterisk(chain) == \E k \in 1..Len(chain) : chain[k].kind = asteriskKind

C33_BacktrackAsNfaMatch ==
    (~glob.err /\ hasAsterisk(glob.chain) /\ CallReturned)
        => backtrack(glob.chain, newStringStep(last.input))
             = nfaMatch(glob.chain, newReaderStep(last.input))

(* The same on the inputs that hold no undecodable byte and no U+FFFD.    *)
BacktrackAsNfaMatchOnPlainText ==
    (~glob.err /\ hasAsterisk(glob.chain) /\ CallReturned /\ IsPlainText(last.input))
        => backtrack(glob.chain, newStringStep(last.input))
             = nfaMatch(glob.chain, newReaderStep(last.input))


(***************************************************************************)
(* backtrack of part_004 (lines 358-400) step by step.  The locals of the  *)
(* running call are kept in conc: the steper, index and state of the inner *)
(* loop, the posStack, pops, the choice points popped so far, and reads,   *)
(* the index after each character that step has delivered.                 *)
(***************************************************************************)
MaxRetryPatLen == 3

MaxRetryInLen == 2

RetryPatChars == {<<LetterA>>, <<Asterisk>>}

(* Also "*aab", "*a*b", "*?b".                                              *)
RetryPatterns ==
    {Flatten(cs) : cs \in SeqsUpTo(RetryPatChars, MaxRetryPatLen)}
    \cup {<<Asterisk, LetterA, LetterA, LetterB>>,
          <<Asterisk, LetterA, Asterisk, LetterB>>,
          <<Asterisk, Question, LetterB>>}

(* Also "aab", and an undecodable byte inside the input.                   *)
RetryInputs ==
    {Flatten(cs) : cs \in SeqsUpTo({<<LetterA>>, <<LetterB>>}, MaxRetryInLen)}
    \cup {<<LetterA, LetterA, LetterB>>,
          <<LetterA>> \o InvalidByte \o <<LetterA>>}

(* A push of the position of the character that matched, not of the one   *)
(* after it.                                                               *)
posStack_pushBefore(p, index, state) ==
    [index |-> IF index > 0 THEN index - 1 ELSE index, state |-> state]

(* posStack.push (lines 157-160).                                          *)
posStack_push(p, index, state) == [index |-> index, state |-> state]

InitRetry ==
    /\ pattern \in RetryPatterns
    /\ glob = Compile_part004(pattern)
    /\ stringStepPool = <<>>
    /\ byteStepPool = <<>>
    /\ readerStepPool = <<>>
    /\ dfaPool = <<>>
    /\ backTrackPool = <<>>
    /\ nfaPool = <<>>
    /\ pc = "idle"
    /\ last = NoCall
    /\ conc = [sp |-> newStringStep(<<>>), index |-> 0, state |-> 0,
               stack |-> EmptyStack, pops |-> <<>>, reads |-> <<>>]
    /\ firstOutcome = [s \in TrackedInputs |-> "none"]

(* Lines 422-431 and 435-444 up to the loop of backtrack: the steper is    *)
(* taken from its pool; a one-pass Glob is matched at once; otherwise the  *)
(* stack is taken from backTrackPool and the start state pushed (359-365). *)
beginCall(op, s, sp, type) ==
    /\ pc = "idle"
    /\ ~glob.err
    /\ IF glob.onePass
       THEN /\ last' = [op |-> op, input |-> s,
                        outcome |-> Returned(onePassMatch_part004(glob.chain, sp, 1, 0))]
            /\ pc' = "returned"
            /\ UNCHANGED <<backTrackPool, conc>>
       ELSE /\ last' = [op |-> op, input |-> s, outcome |-> "none"]
            /\ pc' = "pop"
            /\ \E gb \in poolGet(backTrackPool, posStackType) :
                 backTrackPool' = gb.rest
            /\ conc' = [sp |-> sp, index |-> 0, state |-> 0,
                        stack |-> posStack_push(EmptyStack, 0, 1), pops |-> <<>>, reads |-> <<>>]
    /\ UNCHANGED <<pattern, glob, readerStepPool, dfaPool, nfaPool, firstOutcome>>

MatchString_begin(s) ==
    /\ beginCall(MatchStringOp, s, newStringStep(s), stringStepType)
    /\ \E gs \in poolGet(stringStepPool, stringStepType) :
         stringStepPool' = IF glob.onePass THEN poolPut(gs.rest, gs.item) ELSE gs.rest
    /\ UNCHANGED byteStepPool

Match_begin(bs) ==
    /\ beginCall(MatchOp, bs, newByteStep(bs), byteStepType)
    /\ \E gs \in poolGet(byteStepPool, byteStepType) :
         byteStepPool' = IF glob.onePass THEN poolPut(gs.rest, gs.item) ELSE gs.rest
    /\ UNCHANGED stringStepPool

(* A return of backtrack: the deferred calls put the stack (360-363) and   *)
(* the steper (425-427, 438-440) back.                                     *)
backtrack_return(res) ==
    /\ last' = [last EXCEPT !.outcome = Returned(res)]
    /\ pc' = "returned"
    /\ backTrackPool' = poolPut(backTrackPool, posStackType)
    /\ conc' = [conc EXCEPT !.stack = EmptyStack]
    /\ IF last.op = MatchStringOp
       THEN /\ stringStepPool' = poolPut(stringStepPool, stringStepType)
            /\ UNCHANGED byteStepPool
       ELSE /\ byteStepPool' = poolPut(byteStepPool, byteStepType)
            /\ UNCHANGED stringStepPool

(* The pop of the outer loop (line 366); nil ends the loop (line 399).     *)
backtrack_pop ==
    /\ pc = "pop"
    /\ IF conc.stack.state = 0
       THEN backtrack_return(FALSE)
       ELSE /\ conc' = [conc EXCEPT !.index = conc.stack.index,
                                    !.state = conc.stack.state,
                                    !.stack = EmptyStack,
                                    !.pops = Append(@, conc.stack)]
            /\ pc' = "loop"
            /\ UNCHANGED <<last, backTrackPool, stringStepPool, byteStepPool>>
    /\ UNCHANGED <<pattern, glob, readerStepPool, dfaPool, nfaPool, firstOutcome>>

(* One pass of the inner loop (lines 367-396) on s, what step returned in  *)
(* state chain[k].                                                         *)
backtrack_on(chain, k, s) ==
    IF s.r = RuneError
    THEN IF \/ chain[k].kind = matchedKind
            \/ chain[k].kind = asteriskKind /\ chain[k + 1].kind = matchedKind
         THEN backtrack_return(TRUE)
         ELSE /\ pc' = "pop"
              /\ UNCHANGED <<conc, last, backTrackPool, stringStepPool, byteStepPool>>
    ELSE IF chain[k].kind = asteriskKind /\ chain[k + 1].kind = matchedKind
    THEN backtrack_return(TRUE)
    ELSE /\ conc' =
              IF chain[k].kind = asteriskKind
              THEN IF stateMatch(chain[k + 1], s.r)
                   THEN [conc EXCEPT !.index = s.next, !.state = k + 2,
                                     !.stack = posStack_push(@, s.next, k),
                                     !.reads = Append(@, s.next)]
                   ELSE [conc EXCEPT !.index = s.next, !.reads = Append(@, s.next)]
              ELSE IF stateMatch(chain[k], s.r)
              THEN [conc EXCEPT !.index = s.next, !.state = k + 1,
                                !.reads = Append(@, s.next)]
              ELSE [conc EXCEPT !.index = s.next, !.reads = Append(@, s.next)]
         /\ pc' = IF chain[k].kind # asteriskKind /\ ~stateMatch(chain[k], s.r)
                  THEN "pop" ELSE "loop"
         /\ UNCHANGED <<last, backTrackPool, stringStepPool, byteStepPool>>

backtrack_iterate ==
    /\ pc = "loop"
    /\ backtrack_on(glob.chain, conc.state,
                    step_part004(conc.sp, conc.index,
                                 IF glob.chain[conc.state].kind = asteriskKind
                                 THEN glob.chain[conc.state + 1] ELSE NilState))
    /\ UNCHANGED <<pattern, glob, readerStepPool, dfaPool, nfaPool, firstOutcome>>

NextRetry ==
    \/ \E s \in RetryInputs : MatchString_begin(s)
    \/ \E bs \in RetryInputs : Match_begin(bs)
    \/ backtrack_pop
    \/ backtrack_iterate
    \/ CallerContinues
    \/ poolCleanup

(* A call that has begun is not suspended for ever: the loop of backtrack  *)
(* runs in the goroutine of its caller.                                    *)
SpecRetry ==
    InitRetry /\ [][NextRetry]_vars
    /\ WF_vars(backtrack_pop) /\ WF_vars(backtrack_iterate)

(***************************************************************************)
(* C34.  backtrack terminates: every call that has begun returns; each     *)
(* choice point popped resumes an asterisk at a position strictly greater  *)
(* than the one popped before it; a call makes at most one retry for each  *)
(* character of the input; and the stack never holds more choice points    *)
(* than the pattern has asterisks.                                         *)
(***************************************************************************)
asterisksOf(chain) == {k \in 1..Len(chain) : chain[k].kind = asteriskKind}

strictlyIncreasing(pops) ==
    \A i \in 2..Len(pops) :
        /\ pops[i].index > pops[i - 1].index
        /\ glob.chain[pops[i].state].kind = asteriskKind

choicePoints(stack) == IF stack.state = 0 THEN 0 ELSE 1

retriesAreBounded ==
    (pc \in {"pop", "loop", "returned"} /\ ~glob.onePass)
        => /\ strictlyIncreasing(conc.pops)
           /\ Len(conc.pops) <= Len(RunesOf(last.input)) + 1
           /\ choicePoints(conc.stack) <= Cardinality(asterisksOf(glob.chain))

C34_BacktrackTerminates ==
    /\ []retriesAreBounded
    /\ (pc \in {"pop", "loop"}) ~> (pc = "returned")

(* A call that has retried twice has returned false: "*a" on "aab".        *)
C34_Witness ==
    /\ pc = "returned"
    /\ ~glob.onePass
    /\ Len(conc.pops) = 3
    /\ last.outcome = ReturnsFalse

(* The call returns what the operator backtrack computes.                  *)
StepwiseAsBacktrack ==
    (pc = "returned" /\ ~glob.onePass)
        => last.outcome = Returned(backtrack(glob.chain, newSteper(last.op, last.input)))


(***************************************************************************)
(* C35.  Each call to step delivers exactly the next decoded character of  *)
(* the input or signals end of input: no character is skipped and none is  *)
(* delivered twice.                                                        *)
(***************************************************************************)
nextCharacter(sp, index) ==
    IF Len(sp.data) > index
    THEN decodeAt(sp, index, DecodeRune(Drop(sp.data, index)))
    ELSE endOfInput(sp)

stepOfLoop ==
    step_part004(conc.sp, conc.index,
                 IF glob.chain[conc.state].kind = asteriskKind
                 THEN glob.chain[conc.state + 1] ELSE NilState)

noneTwice(reads) == \A i, j \in 1..Len(reads) : reads[i] = reads[j] => i = j

C35_StepDeliversNextCharacter ==
    /\ pc = "loop" => stepOfLoop = nextCharacter(conc.sp, conc.index)
    /\ pc \in {"pop", "loop", "returned"} => noneTwice(conc.reads)

(* A call to step with no state delivers the next character.               *)
StepWithNilDeliversNext ==
    (pc = "loop" /\ glob.chain[conc.state].kind # asteriskKind)
        => stepOfLoop = nextCharacter(conc.sp, conc.index)

(* With the state after an asterisk, step delivers the first character of  *)
(* the next occurrence of the literal run, or signals end of input.        *)
StepWithStateSkips ==
    (pc = "loop" /\ glob.chain[conc.state].kind = asteriskKind)
        => \/ stepOfLoop.r = RuneError
           \/ \E i \in conc.index..Len(conc.sp.data) :
                stepOfLoop = nextCharacter(conc.sp, i)

(* Without a retry no character is delivered twice.                        *)
NoneTwiceWithoutRetry ==
    (pc \in {"pop", "loop", "returned"} /\ Len(conc.pops) <= 1)
        => noneTwice(conc.reads)


(***************************************************************************)
(* The patterns of part_002 that are matched in reverse: they start with   *)
(* an asterisk, do not end with one, and hold a '?' or a '['.              *)
(***************************************************************************)
MaxReverseInLen == 3

(* "*?", "*?a", "*a?", "*?b", "*?\a", "*\*?", "*?*a", "*a*?", "*[ab]",      *)
(* "*[ab]a", "*a[ab]", "*[^a]", "*?ab".                                    *)
ReversePatterns ==
    {<<Asterisk, Question>>,
     <<Asterisk, Question, LetterA>>,
     <<Asterisk, LetterA, Question>>,
     <<Asterisk, Question, LetterB>>,
     <<Asterisk, Question, Backslash, LetterA>>,
     <<Asterisk, Backslash, Asterisk, Question>>,
     <<Asterisk, Question, Asterisk, LetterA>>,
     <<Asterisk, LetterA, Asterisk, Question>>,
     <<Asterisk, OpenSquare, LetterA, LetterB, CloseSquare>>,
     <<Asterisk, OpenSquare, LetterA, LetterB, CloseSquare, LetterA>>,
     <<Asterisk, LetterA, OpenSquare, LetterA, LetterB, CloseSquare>>,
     <<Asterisk, OpenSquare, Caret, LetterA, CloseSquare>>,
     <<Asterisk, Question, LetterA, LetterB>>}

(* Texts over a, b, and "*", "a*", "*a".                                   *)
ReverseInputs ==
    {Flatten(cs) : cs \in SeqsUpTo({<<LetterA>>, <<LetterB>>}, MaxReverseInLen)}
    \cup {<<Asterisk>>, <<LetterA, Asterisk>>, <<Asterisk, LetterA>>}

InitReverse ==
    /\ pattern \in ReversePatterns
    /\ glob = Compile_part002(pattern)
    /\ stringStepPool = <<>>
    /\ byteStepPool = <<>>
    /\ readerStepPool = <<>>
    /\ dfaPool = <<>>
    /\ backTrackPool = <<>>
    /\ nfaPool = <<>>
    /\ pc = "idle"
    /\ last = NoCall
    /\ conc = <<>>
    /\ firstOutcome = [s \in TrackedInputs |-> "none"]

NextReverse ==
    \/ \E s \in ReverseInputs : Match_part002(s)
    \/ String_part002
    \/ CallerContinues
    \/ poolCleanup

SpecReverse == InitReverse /\ [][NextReverse]_vars

(***************************************************************************)
(* C36.  For a pattern that starts with an asterisk and does not end with  *)
(* one, matching the reversed chain against the input read from its end    *)
(* gives the result of matching the pattern forward against the input.     *)
(***************************************************************************)
forwardChain(chain) ==
    Append(Reverse(Take(chain, Len(chain) - 1)), State(matchedKind, 0, NoRegex))

forwardMatch(chain, runes) ==
    dfaMatch_part002(chain, dfaNew_part002(chain), runes).res

C36_ReverseAsForward ==
    (glob.matchPattern = reverseGlobPattern /\ CallReturned /\ last.op = MatchOp)
        => last.outcome
             = Returned(forwardMatch(forwardChain(glob.chain), RunesOf(last.input)))

(* With the leading asterisk as the only one, the reverse match returns    *)
(* what the forward match returns and what the pattern means.              *)
ReverseAsForwardWithOneAsterisk ==
    (/\ glob.matchPattern = reverseGlobPattern /\ CallReturned /\ last.op = MatchOp
     /\ Cardinality(asterisksOf(glob.chain)) = 1)
        => /\ last.outcome
                = Returned(forwardMatch(forwardChain(glob.chain), RunesOf(last.input)))
           /\ last.outcome
                = Returned(RefMatch(forwardChain(glob.chain), 1, RunesOf(last.input)))

(* The forward match returns what the pattern means: violated by "*?*a"   *)
(* on "*a", whose second asterisk has to take a character.                 *)
ForwardAsMeaning ==
    (glob.matchPattern = reverseGlobPattern /\ CallReturned /\ last.op = MatchOp)
        => forwardMatch(forwardChain(glob.chain), RunesOf(last.input))
             = RefMatch(forwardChain(glob.chain), 1, RunesOf(last.input))

C36_Witness ==
    /\ glob.matchPattern = reverseGlobPattern
    /\ CallReturned
    /\ last.op = MatchOp
    /\ pattern = <<Asterisk, OpenSquare, LetterA, LetterB, CloseSquare, LetterA>>
    /\ last.input = <<LetterB, LetterB, LetterA>>
    /\ last.outcome = ReturnsTrue


(***************************************************************************)
(* src/bracket.go as a state machine over the same variables: pattern is   *)
(* the text of one bracket expression, glob what newBracket returns for    *)
(* it, and a call is bracket.match on a character.  The texts are a '[',   *)
(* an optional '^', up to MaxBracketItems items of a, x, "a-c", "c-a",     *)
(* "[:digit:]" and "[:foo:]", and a ']'; and, for each of the twelve       *)
(* names, the class followed by one of its own members, as "[[:alnum:]0]". *)
(***************************************************************************)
MaxBracketItems == 2

MaxChar == 128

BracketItems ==
    {<<LetterA>>, <<120>>, <<LetterA, Hyphen, LetterC>>,
     <<LetterC, Hyphen, LetterA>>,
     <<91, 58, 100, 105, 103, 105, 116, 58, 93>>,
     <<91, 58, 102, 111, 111, 58, 93>>}

classText(name, member) ==
    <<OpenSquare, OpenSquare, Colon>> \o name \o <<Colon, CloseSquare, member, CloseSquare>>

(* The twelve names with the set that each is to accept.                   *)
NamedClasses ==
    {[text |-> classText(<<97, 108, 110, 117, 109>>, 48),
      set |-> (48..57) \cup (97..122) \cup (65..90)],
     [text |-> classText(<<97, 108, 112, 104, 97>>, 97),
      set |-> (97..122) \cup (65..90)],
     [text |-> classText(<<98, 108, 97, 110, 107>>, 32), set |-> {9, 32}],
     [text |-> classText(<<99, 110, 116, 114, 108>>, 127),
      set |-> (0..31) \cup {127}],
     [text |-> classText(<<100, 105, 103, 105, 116>>, 48), set |-> 48..57],
     [text |-> classText(<<103, 114, 97, 112, 104>>, 33), set |-> 33..126],
     [text |-> classText(<<108, 111, 119, 101, 114>>, 97), set |-> 97..122],
     [text |-> classText(<<112, 114, 105, 110, 116>>, 32), set |-> 32..126],
     [text |-> classText(<<112, 117, 110, 99, 116>>, 33),
      set |-> (33..47) \cup (58..64) \cup (91..96) \cup (123..126)],
     [text |-> classText(<<115, 112, 97, 99, 101>>, 32),
      set |-> {9, 10, 11, 12, 13, 32}],
     [text |-> classText(<<117, 112, 112, 101, 114>>, 65), set |-> 65..90],
     [text |-> classText(<<120, 100, 105, 103, 105, 116>>, 48),
      set |-> (48..57) \cup (97..102) \cup (65..70)]}

BracketTexts ==
    {<<OpenSquare>> \o neg \o Flatten(items) \o <<CloseSquare>> :
        neg \in {<<>>, <<Caret>>},
        items \in SeqsUpTo(BracketItems, MaxBracketItems)}
    \cup {nc.text : nc \in NamedClasses}

BracketMatchOp == "bracket.match"

InitNewBracket ==
    /\ pattern \in BracketTexts
    /\ glob = newBracket(pattern)
    /\ stringStepPool = <<>>
    /\ byteStepPool = <<>>
    /\ readerStepPool = <<>>
    /\ dfaPool = <<>>
    /\ backTrackPool = <<>>
    /\ nfaPool = <<>>
    /\ pc = "idle"
    /\ last = NoCall
    /\ conc = <<>>
    /\ firstOutcome = [s \in TrackedInputs |-> "none"]

(* A call b.match(r) on the bracket that newBracket returned.              *)
match_call(r) ==
    /\ pc = "idle"
    /\ ~glob.err
    /\ last' = [op |-> BracketMatchOp, input |-> <<r>>,
                outcome |-> Returned(bracket_match(glob.bracket, r))]
    /\ pc' = "returned"
    /\ UNCHANGED <<pattern, glob, backTrackPool, nfaPool, stringStepPool,
                   byteStepPool, readerStepPool, dfaPool, conc, firstOutcome>>

NextNewBracket ==
    \/ \E r \in 0..MaxChar : match_call(r)
    \/ CallerContinues

SpecNewBracket == InitNewBracket /\ [][NextNewBracket]_vars

(***************************************************************************)
(* C37.  For every compiled bracket and every character c, match(c) is     *)
(* the negation flag XOR (c lies in a stored range or is a stored member). *)
(***************************************************************************)
inStored(b, c) ==
    \/ \E cr \in b.charRanges : cr[1] <= c /\ c <= cr[2]
    \/ c \in b.runes

C37_MatchIsNegationXorStored ==
    (CallReturned /\ last.op = BracketMatchOp)
        => last.outcome
             = Returned(glob.bracket.nonMatch # inStored(glob.bracket, last.input[1]))

(* A negated bracket with a range and a member has accepted a character    *)
(* that is in none of them.                                                *)
C37_Witness ==
    /\ CallReturned
    /\ last.op = BracketMatchOp
    /\ glob.bracket.nonMatch
    /\ glob.bracket.charRanges # {}
    /\ glob.bracket.runes # {}
    /\ ~inStored(glob.bracket, last.input[1])
    /\ last.outcome = ReturnsTrue

(***************************************************************************)
(* C38.  Each named class accepts exactly its fixed set of ASCII           *)
(* characters.                                                             *)
(***************************************************************************)
C38_NamedClassAcceptsItsSet ==
    (CallReturned /\ last.op = BracketMatchOp)
        => \A nc \in NamedClasses :
               pattern = nc.text
                   => last.outcome = Returned(last.input[1] \in nc.set)

PunctText == classText(<<112, 117, 110, 99, 116>>, 33)

(* The eleven names other than punct accept their sets.                    *)
NamedClassesButPunct ==
    (CallReturned /\ last.op = BracketMatchOp /\ pattern # PunctText)
        => \A nc \in NamedClasses :
               pattern = nc.text
                   => last.outcome = Returned(last.input[1] \in nc.set)

(* punct accepts the nine characters ! - / : @ [ ` { ~ and no other.       *)
PunctAcceptsNineCharacters ==
    (CallReturned /\ last.op = BracketMatchOp /\ pattern = PunctText)
        => last.outcome
             = Returned(last.input[1] \in {33, 45, 47, 58, 64, 91, 96, 123, 126})


(***************************************************************************)
(* Compile of src/glob.go on patterns with characters of one and of three  *)
(* bytes before a bracket expression: up to MaxWideLen characters of a     *)
(* and U+4E16, then "[ab]c".                                               *)
(***************************************************************************)
MaxWideLen == 2

BracketAB == <<OpenSquare, LetterA, LetterB, CloseSquare>>

WidePrefixes == {Flatten(cs) : cs \in SeqsUpTo({<<LetterA>>, CharSekai}, MaxWideLen)}

WidePatterns == {w \o BracketAB \o <<LetterC>> : w \in WidePrefixes}

WideInputs == {w \o <<x, LetterC>> : w \in WidePrefixes, x \in {LetterA, LetterC}}

InitWide == InitOver(WidePatterns)

NextWide ==
    \/ \E s \in WideInputs : MatchString(s)
    \/ \E bs \in WideInputs : Match(bs)
    \/ \E s \in WideInputs : MatchReader(s)
    \/ CallerContinues
    \/ poolCleanup

SpecWide == InitWide /\ [][NextWide]_vars

(***************************************************************************)
(* C39.  Whatever the byte width of the characters before a '[', the       *)
(* class step is built from the text from that '[' to its ']' and the      *)
(* scan resumes right after the ']': the chain of w[ab]c is the literals   *)
(* of w, the class [ab], the literal c, and the matched state.             *)
(***************************************************************************)
widePrefix(p) == Take(p, Len(p) - Len(BracketAB) - 1)

literals(rs) == [i \in 1..Len(rs) |-> State(runeKind, rs[i], NoRegex)]

chainOfWide(w) ==
    literals(RunesOf(w))
    \o <<State(regexKind, 0, regexpCompile(BracketAB).re),
         State(runeKind, LetterC, NoRegex),
         State(matchedKind, 0, NoRegex)>>

C39_BracketIsLocatedByCharacter ==
    /\ ~glob.err
    /\ glob.chain = chainOfWide(widePrefix(pattern))

(* With characters of one byte only before the '[', the chain is built.    *)
BracketAfterOneByteCharacters ==
    (Len(RunesOf(widePrefix(pattern))) = Len(widePrefix(pattern)))
        => /\ ~glob.err
           /\ glob.chain = chainOfWide(widePrefix(pattern))

(* With a character of three bytes before the '[', Compile fails.          *)
BracketAfterWideCharacterFails ==
    (Len(RunesOf(widePrefix(pattern))) < Len(widePrefix(pattern))) => glob.err

=============================================================================
